---- MODULE Spec2Model ----
(***************************************************************************)
(* Points ledger and QR access protocol of the gym backend.                *)
(*                                                                         *)
(* The persisted state is the three MongoDB collections (users, gyms,      *)
(* transactions).  Every HTTP request is a process that runs its handler   *)
(* step by step: one step per awaited database call, the synchronous code  *)
(* between two awaits belonging to the step of the await that precedes it. *)
(* Transaction.createTransaction runs inside a MongoDB multi-document      *)
(* transaction (snapshot isolation, first writer wins, write conflicts     *)
(* abort the later writer); every other write is a plain single-document   *)
(* update of the paths Mongoose saw modified.                              *)
(***************************************************************************)
EXTENDS Integers, FiniteSets, Sequences, TLC

(***************************************************************************)
(* Bounds of the model.                                                    *)
(***************************************************************************)
MaxPoints == 4      \* balances and prices explored are 0..MaxPoints
MaxAmount == 2      \* amounts of manual transactions are 1..MaxAmount
MaxTx     == 2      \* ledger calls that may create a record
MaxCodes  == 3      \* QR tokens that may be issued
MaxTime   == 48     \* the clock stops advancing after MaxTime hours
MaxFaults == 1      \* storage failures that may be injected
MaxServed == 1      \* request slots that may be reused

(***************************************************************************)
(* Identities.                                                             *)
(***************************************************************************)
Procs   == {"p1", "p2"}
UserIds == {"u1", "a1"}
GymIds  == {"g1", "g2"}

ROLES == [SUPER_ADMIN |-> "super_admin", ADMIN |-> "admin",
          GYM |-> "gym", USER |-> "user"]

NoDate  == -1            \* a Date path that was never set
NoCode  == 0             \* qrCode.code never set (tokens are 1, 2, ...)
Missing == "undefined"   \* an identity or field the request does not carry

\* findById resolved to null
NoUser == [exists |-> FALSE, points |-> 0, role |-> "user", isActive |-> FALSE,
           assignedGyms |-> {}, lastLogin |-> NoDate, half |-> 0]

NoGym == [exists |-> FALSE, pointsRequired |-> 0,
          qrCode |-> [code |-> NoCode, expiresAt |-> NoDate], admins |-> {}]

NoRec == [deviceInfo |-> Missing, location |-> Missing,
          id |-> 0, userId |-> Missing, gymId |-> Missing, points |-> 0,
          half |-> 0,
          type |-> "EARN", status |-> "PENDING", createdBy |-> Missing,
          qrCodeId |-> NoCode]

(***************************************************************************)
(* JavaScript values that reach the handlers in a JSON body: a number or   *)
(* a string of decimal digits.  A string is truthy unless empty, a number  *)
(* unless zero; Mongoose casts a numeric string to its number.             *)
(***************************************************************************)
JsNum(n) == [k |-> "num", v |-> n]
JsStr(n) == [k |-> "str", v |-> n]
JsUndefined == [k |-> "undefined", v |-> 0]

Truthy(x) == IF x.k = "undefined" THEN FALSE
             ELSE IF x.k = "str" THEN TRUE
             ELSE x.v # 0

CastNumber(x) == x.v

(***************************************************************************)
(* Numbers with a fraction.  A JavaScript number n + h/2 (n an integer, h  *)
(* 0 or 1) is kept as the pair points = n, half = h; n is its floor, so    *)
(* comparisons with an integer read the floor alone.  Sums and differences *)
(* are taken on the count of halves.                                       *)
(***************************************************************************)
Halves(points, half) == 2 * points + half

Whole(halves) == halves \div 2

Frac(halves) == halves % 2

\* user.points += points.  When points arrived as a string of digits, += is
\* string concatenation and the schema casts the digits back to a number on
\* assignment: 1 += "2" gives 12.  (Only whole operands occur with strings.)
RECURSIVE Shift(_, _)
Shift(b, n) == IF n < 10 THEN 10 * b ELSE Shift(10 * b, n \div 10)

Plus(balance, amount, str) ==
  IF str THEN 2 * (Shift(Whole(balance), Whole(amount)) + Whole(amount))
         ELSE balance + amount

\* The largest balance explored; a concatenated balance has a digit more.
Cap(str) == IF str THEN 10 * MaxPoints + MaxAmount ELSE MaxPoints

\* express-validator's isInt({ min: 1 }) on the number as it was sent
isInt(points, half, min) == half = 0 /\ points >= min

(***************************************************************************)
(* Schema validators.                                                      *)
(***************************************************************************)
MutUserPointsValid(n) == TRUE

UserPointsValid(n) == n >= 0

GymPointsRequiredValid(n) == n >= 0

TransactionValid(rec) ==
  /\ rec.userId # Missing
  /\ rec.gymId # Missing
  /\ rec.points >= 1
  /\ rec.type \in {"EARN", "SPEND"}

(***************************************************************************)
(* QR payload verification.                                                *)
(***************************************************************************)
QR_CODE_EXPIRY == 24

\* A nested path of a hydrated Mongoose document is always an object.
MutQrCodeTruthy(gym) == gym.qrCode.code # NoCode

QrCodeTruthy(gym) == TRUE

MutIsQRCodeExpired(gym, t) ==
  IF gym.qrCode.expiresAt = NoDate THEN TRUE ELSE t >= gym.qrCode.expiresAt

isQRCodeExpired(gym, t) ==
  IF ~QrCodeTruthy(gym) \/ gym.qrCode.expiresAt = NoDate THEN TRUE
  ELSE t > gym.qrCode.expiresAt

MutVerifyQRCode(payload, gym, gid, t) ==
  /\ payload.kind = "object"
  /\ payload.id # NoCode /\ payload.gymId = gid
  /\ ~isQRCodeExpired(gym, t)

verifyQRCode(payload, gym, gid, t) ==
  IF payload.kind # "object" THEN FALSE
  ELSE IF payload.id = NoCode \/ payload.gymId = Missing THEN FALSE
  ELSE IF payload.gymId # gid THEN FALSE
  ELSE IF QrCodeTruthy(gym) /\ isQRCodeExpired(gym, t) THEN FALSE
  ELSE IF QrCodeTruthy(gym) /\ payload.id # gym.qrCode.code THEN FALSE
  ELSE TRUE

(***************************************************************************)
(* State.                                                                  *)
(***************************************************************************)
VARIABLES
  users,     \* users collection: id -> document (NoUser when absent)
  gyms,      \* gyms collection: id -> document (NoGym when absent)
  txlog,     \* transactions collection: the committed records
  now,       \* wall clock, in hours
  nextCode,  \* next value uuidv4() returns
  nextTx,    \* next _id given to a transaction record
  faults,    \* storage failures injected so far
  served,    \* requests answered whose slot took a further request
  req,       \* per request: handler, position, locals and response
  stale,     \* per request: its open transaction's snapshot of the account
             \* is older than the account's last committed write
  users0,    \* history: the users collection of the initial state
  issued     \* history: every QR session ever stored, with its issue time

vars == <<users, gyms, txlog, now, nextCode, nextTx, faults, served, req,
          stale, users0, issued>>

NoPayload == [kind |-> "object", id |-> NoCode, gymId |-> Missing,
              pointsRequired |-> 0]

NoBody == [points |-> JsUndefined, role |-> Missing, isActive |-> Missing,
           pointsRequired |-> JsUndefined]

NoData == [deviceInfo |-> Missing, location |-> Missing,
           userId |-> Missing, gymId |-> Missing, points |-> 0, half |-> 0,
           str |-> FALSE,
           type |-> "EARN", createdBy |-> Missing, qrCodeId |-> NoCode]

\* A request slot with no request in it.
Idle == [op |-> "idle", pc |-> "idle",
         actor |-> Missing, ruser |-> NoUser,
         target |-> Missing, gymId |-> Missing, points |-> 0, half |-> 0,
         str |-> FALSE, type |-> "EARN",
         body |-> NoBody, payload |-> NoPayload,
         deviceInfo |-> Missing, location |-> Missing,
         user |-> NoUser, before |-> 0, gym |-> NoGym, mods |-> {},
         qr |-> [code |-> NoCode, expiresAt |-> NoDate],
         verified |-> FALSE, at |-> 0,
         hasQRCode |-> FALSE, isExpired |-> FALSE,
         ldata |-> NoData, luser |-> NoUser, lrec |-> NoRec,
         lwrote |-> FALSE, lpoints |-> 0, lhalf |-> 0, lerr |-> "none",
         status |-> 0, message |-> "none", respPoints |-> 0]

Respond(r, status, message) ==
  [r EXCEPT !.pc = "done", !.status = status, !.message = message]

(***************************************************************************)
(* MongoDB transaction bookkeeping.                                        *)
(***************************************************************************)
LedgerPcs == {"L_find", "L_create", "L_save", "L_complete", "L_commit",
              "L_abort"}

\* The requests whose open transaction holds an uncommitted write of account u.
LockedBy(u) ==
  {q \in Procs : req[q].pc \in LedgerPcs /\ req[q].lwrote
                 /\ req[q].ldata.userId = u}

\* A write of account u commits: every other open transaction that has read
\* u and not yet written it now works on an outdated snapshot.
MutTouched(u, self) == stale

Touched(u, self) ==
  [q \in Procs |->
     IF q # self /\ req[q].pc \in {"L_create", "L_save"}
        /\ req[q].ldata.userId = u
     THEN TRUE ELSE stale[q]]

(***************************************************************************)
(* errorHandler: the response for an error passed to next(error).          *)
(***************************************************************************)
ErrorStatus(err) == IF err = "ValidationError" THEN 400 ELSE 500

ErrorMessage(err) == IF err = "ValidationError" THEN "Validation error" ELSE err

Fail(r, err) == Respond(r, ErrorStatus(err), ErrorMessage(err))

(***************************************************************************)
(* protect, followed by the synchronous role checks of the route           *)
(* (restrictTo and hasPermission).  r is the request as the handler will   *)
(* see it when it is admitted.                                             *)
(***************************************************************************)
NeedsLoginStamp(a) ==
  users[a].lastLogin = NoDate \/ now - users[a].lastLogin > 24

\* protect without the isActive test
MutProtect(p, a, allowed, r) ==
  /\ req[p].op = "idle"
  /\ IF ~users[a].exists
     THEN /\ req' = [req EXCEPT ![p] =
                       Respond(r, 401, "User not found or token is invalid")]
          /\ UNCHANGED <<users, stale>>
     ELSE /\ IF NeedsLoginStamp(a)
             THEN /\ LockedBy(a) = {}
                  /\ users' = [users EXCEPT ![a].lastLogin = now]
                  /\ stale' = Touched(a, p)
             ELSE UNCHANGED <<users, stale>>
          /\ req' = [req EXCEPT ![p] =
                       IF users[a].role \in allowed
                       THEN [r EXCEPT !.actor = a, !.ruser = users'[a]]
                       ELSE Respond([r EXCEPT !.actor = a, !.ruser = users'[a]],
                                    403, "You do not have permission to perform this action")]

Protect(p, a, allowed, r) ==
  /\ req[p].op = "idle"
  /\ IF ~users[a].exists
     THEN /\ req' = [req EXCEPT ![p] =
                       Respond(r, 401, "User not found or token is invalid")]
          /\ UNCHANGED <<users, stale>>
     ELSE IF ~users[a].isActive
     THEN /\ req' = [req EXCEPT ![p] =
                       Respond(r, 403, "User account is disabled")]
          /\ UNCHANGED <<users, stale>>
     ELSE /\ IF NeedsLoginStamp(a)
             THEN /\ LockedBy(a) = {}
                  /\ users' = [users EXCEPT ![a].lastLogin = now]
                  /\ stale' = Touched(a, p)
             ELSE UNCHANGED <<users, stale>>
          /\ req' = [req EXCEPT ![p] =
                       IF users[a].role \in allowed
                       THEN [r EXCEPT !.actor = a, !.ruser = users'[a]]
                       ELSE Respond([r EXCEPT !.actor = a, !.ruser = users'[a]],
                                    403, "You do not have permission to perform this action")]

PERMISSIONS ==
  [UPDATE_GYM |-> {ROLES.SUPER_ADMIN, ROLES.ADMIN},
   CREATE_GYM |-> {ROLES.SUPER_ADMIN, ROLES.ADMIN},
   DELETE_GYM |-> {ROLES.SUPER_ADMIN},
   MANAGE_ADMINS |-> {ROLES.SUPER_ADMIN},
   DELETE_USER |-> {ROLES.SUPER_ADMIN, ROLES.ADMIN},
   CREATE_TRANSACTION |-> {ROLES.SUPER_ADMIN, ROLES.ADMIN, ROLES.GYM},
   GENERATE_QR |-> {ROLES.SUPER_ADMIN, ROLES.ADMIN, ROLES.GYM}]

AllRoles == {ROLES.SUPER_ADMIN, ROLES.ADMIN, ROLES.GYM, ROLES.USER}

(***************************************************************************)
(* Transaction.createTransaction.  The caller has put transactionData in   *)
(* ldata and set pc to "L_find".                                           *)
(***************************************************************************)
Lookup(coll, none, id) == IF id \in DOMAIN coll THEN coll[id] ELSE none

MutSpendAllowed(balance, points) == TRUE

SpendAllowed(balance, points) == ~(balance < points)

\* The response the calling handler sends when the ledger call returns.
Success(r) ==
  IF r.op = "scan"
  THEN [Respond(r, 200, "Access granted") EXCEPT
          !.respPoints = r.user.points - r.ldata.points]
  ELSE IF r.op = "manual"
  THEN Respond(r, 201, "success")
  ELSE [Respond(r, 200, "success") EXCEPT !.respPoints = r.user.points]

\* A ledger call that starts over when its write conflicts
MutThrow(r, err) ==
  IF err = "WriteConflict" THEN [r EXCEPT !.pc = "L_find"]
  ELSE [r EXCEPT !.pc = "L_abort", !.lerr = err]

Throw(r, err) == [r EXCEPT !.pc = "L_abort", !.lerr = err]

\* startSession, startTransaction, User.findById(userId).session(session)
LedgerFind(p) ==
  /\ req[p].pc = "L_find"
  /\ LET u == Lookup(users, NoUser, req[p].ldata.userId) IN
       req' = [req EXCEPT ![p] =
                 IF ~u.exists THEN Throw(req[p], "User not found")
                 ELSE [req[p] EXCEPT !.pc = "L_create", !.luser = u]]
  /\ stale' = [stale EXCEPT ![p] = FALSE]
  /\ UNCHANGED <<users, gyms, txlog, now, nextCode, nextTx, faults, served, users0, issued>>

\* this.create([{..., status: 'PENDING'}]) without the session: the record
\* is in the collection at once
MutLedgerCreate(p) ==
  /\ req[p].pc = "L_create"
  /\ LET d   == req[p].ldata
         balance == Halves(req[p].luser.points, req[p].luser.half)
         amount  == Halves(d.points, d.half)
         rec == [deviceInfo |-> d.deviceInfo, location |-> d.location,
                 id |-> nextTx, userId |-> d.userId, gymId |-> d.gymId,
                 points |-> d.points, half |-> d.half, type |-> d.type,
                 status |-> "PENDING",
                 createdBy |-> d.createdBy, qrCodeId |-> d.qrCodeId]
     IN IF ~TransactionValid(rec)
        THEN /\ req' = [req EXCEPT ![p] = Throw(req[p], "ValidationError")]
             /\ UNCHANGED <<nextTx, txlog>>
        ELSE /\ nextTx <= MaxTx
             /\ nextTx' = nextTx + 1
             /\ txlog' = txlog \cup {rec}
             /\ req' = [req EXCEPT ![p] =
                  IF d.type = "EARN"
                  THEN [req[p] EXCEPT !.pc = "L_save", !.lrec = rec,
                          !.lpoints = Whole(Plus(balance, amount, d.str)),
                          !.lhalf = Frac(Plus(balance, amount, d.str))]
                  ELSE IF ~SpendAllowed(balance, amount)
                  THEN Throw([req[p] EXCEPT !.lrec = rec], "Insufficient points")
                  ELSE [req[p] EXCEPT !.pc = "L_save", !.lrec = rec,
                          !.lpoints = Whole(balance - amount),
                          !.lhalf = Frac(balance - amount)]]
  /\ UNCHANGED <<users, gyms, now, nextCode, faults, served, users0, issued, stale>>

\* this.create([{..., status: 'PENDING'}], {session}) and the balance
\* arithmetic that follows it
LedgerCreate(p) ==
  /\ req[p].pc = "L_create"
  /\ LET d   == req[p].ldata
         balance == Halves(req[p].luser.points, req[p].luser.half)
         amount  == Halves(d.points, d.half)
         rec == [deviceInfo |-> d.deviceInfo, location |-> d.location,
                 id |-> nextTx, userId |-> d.userId, gymId |-> d.gymId,
                 points |-> d.points, half |-> d.half, type |-> d.type,
                 status |-> "PENDING",
                 createdBy |-> d.createdBy, qrCodeId |-> d.qrCodeId]
     IN IF ~TransactionValid(rec)
        THEN /\ req' = [req EXCEPT ![p] = Throw(req[p], "ValidationError")]
             /\ UNCHANGED nextTx
        ELSE /\ nextTx <= MaxTx
             /\ nextTx' = nextTx + 1
             /\ req' = [req EXCEPT ![p] =
                  IF d.type = "EARN"
                  THEN [req[p] EXCEPT !.pc = "L_save", !.lrec = rec,
                          !.lpoints = Whole(Plus(balance, amount, d.str)),
                          !.lhalf = Frac(Plus(balance, amount, d.str))]
                  ELSE IF ~SpendAllowed(balance, amount)
                  THEN Throw([req[p] EXCEPT !.lrec = rec], "Insufficient points")
                  ELSE [req[p] EXCEPT !.pc = "L_save", !.lrec = rec,
                          !.lpoints = Whole(balance - amount),
                          !.lhalf = Frac(balance - amount)]]
  /\ UNCHANGED <<users, gyms, txlog, now, nextCode, faults, served, users0, issued, stale>>

\* user.save() without the session: the write is visible at once
MutLedgerSave(p) ==
  /\ req[p].pc = "L_save"
  /\ req[p].lpoints <= Cap(req[p].ldata.str)
  /\ users' = [users EXCEPT ![req[p].ldata.userId].points = req[p].lpoints,
                            ![req[p].ldata.userId].half = req[p].lhalf]
  /\ req' = [req EXCEPT ![p].pc = "L_complete"]
  /\ stale' = [stale EXCEPT ![p] = FALSE]
  /\ UNCHANGED <<gyms, txlog, now, nextCode, nextTx, faults, served, users0, issued>>

\* user.save({ session })
LedgerSave(p) ==
  /\ req[p].pc = "L_save"
  /\ req[p].lpoints <= Cap(req[p].ldata.str)
  /\ req' = [req EXCEPT ![p] =
       IF ~UserPointsValid(req[p].lpoints)
       THEN Throw(req[p], "ValidationError")
       ELSE IF stale[p] \/ LockedBy(req[p].ldata.userId) # {}
       THEN Throw(req[p], "WriteConflict")
       ELSE [req[p] EXCEPT !.pc = "L_complete", !.lwrote = TRUE]]
  /\ stale' = [stale EXCEPT ![p] = FALSE]
  /\ UNCHANGED <<users, gyms, txlog, now, nextCode, nextTx, faults, served, users0, issued>>

\* transaction[0].status = 'COMPLETED'; transaction[0].save({ session })
LedgerComplete(p) ==
  /\ req[p].pc = "L_complete"
  /\ req' = [req EXCEPT ![p].pc = "L_commit", ![p].lrec.status = "COMPLETED"]
  /\ UNCHANGED <<users, gyms, txlog, now, nextCode, nextTx, faults, served, users0, issued, stale>>

\* session.commitTransaction(): the balance and the record become visible
LedgerCommit(p) ==
  /\ req[p].pc = "L_commit"
  /\ LET u == req[p].ldata.userId IN
       /\ users' = [users EXCEPT ![u].points = req[p].lpoints,
                                 ![u].half = req[p].lhalf]
       /\ stale' = Touched(u, p)
  /\ txlog' = txlog \cup {req[p].lrec}
  /\ req' = [req EXCEPT ![p] = Success([req[p] EXCEPT !.lwrote = FALSE])]
  /\ UNCHANGED <<gyms, now, nextCode, nextTx, faults, served, users0, issued>>

\* A save or the commit is rejected by the storage layer.
StorageFault(p) ==
  /\ req[p].pc \in {"L_save", "L_complete", "L_commit"}
  /\ faults < MaxFaults
  /\ faults' = faults + 1
  /\ req' = [req EXCEPT ![p] = Throw(req[p], "StorageError")]
  /\ stale' = [stale EXCEPT ![p] = FALSE]
  /\ UNCHANGED <<users, gyms, txlog, now, nextCode, nextTx, served, users0, issued>>

\* catch: session.abortTransaction() without the rethrow: the caller goes on
\* as after a commit
MutLedgerAbort(p) ==
  /\ req[p].pc = "L_abort"
  /\ req' = [req EXCEPT ![p] = Success([req[p] EXCEPT !.lwrote = FALSE])]
  /\ UNCHANGED <<users, gyms, txlog, now, nextCode, nextTx, faults, served, users0, issued, stale>>

\* catch: session.abortTransaction(); throw error -> next(error)
LedgerAbort(p) ==
  /\ req[p].pc = "L_abort"
  /\ req' = [req EXCEPT ![p] = Fail([req[p] EXCEPT !.lwrote = FALSE], req[p].lerr)]
  /\ UNCHANGED <<users, gyms, txlog, now, nextCode, nextTx, faults, served, users0, issued, stale>>

(***************************************************************************)
(* POST /api/qr/scan                                                       *)
(***************************************************************************)
Codes == 0 .. MaxCodes

\* The price of gym g1 when the model starts.
InitPrice == 2

Payloads ==
  [kind : {"object"}, id : Codes, gymId : GymIds \cup {Missing},
   pointsRequired : {InitPrice}]
  \cup {[NoPayload EXCEPT !.kind = "null"],
        [NoPayload EXCEPT !.kind = "invalid"]}

DeviceInfos == {"turnstile"}

Locations == {"door"}

StartScan(p, actors, payloads) ==
  \E a \in actors, payload \in payloads,
     deviceInfo \in DeviceInfos, location \in Locations :
    /\ Protect(p, a, {ROLES.USER},
               [Idle EXCEPT !.op = "scan", !.pc = "scan_gym",
                            !.payload = payload,
                            !.deviceInfo = deviceInfo,
                            !.location = location])
    /\ UNCHANGED <<gyms, txlog, now, nextCode, nextTx, faults, served, users0, issued>>

\* The scan that uses the session up: a payload that verified clears it
MutScanFindGym(p) ==
  /\ req[p].pc = "scan_gym"
  /\ LET payload == req[p].payload
         gym     == Lookup(gyms, NoGym, payload.gymId)
         valid   == /\ payload.kind = "object" /\ gym.exists
                    /\ verifyQRCode(payload, gym, payload.gymId, now)
     IN /\ req' = [req EXCEPT ![p] =
               IF valid
               THEN [req[p] EXCEPT !.pc = "scan_user", !.gym = gym, !.at = now,
                                   !.gymId = payload.gymId, !.verified = TRUE]
               ELSE Respond(req[p], 400, "Invalid or expired QR code")]
        /\ gyms' = IF valid
                   THEN [gyms EXCEPT ![payload.gymId].qrCode =
                                       [code |-> NoCode, expiresAt |-> NoDate]]
                   ELSE gyms
  /\ UNCHANGED <<users, txlog, now, nextCode, nextTx, faults, served, users0, issued, stale>>

\* JSON.parse(qrData), Gym.findById(payload.gymId), verifyQRCode(payload, gym)
ScanFindGym(p) ==
  /\ req[p].pc = "scan_gym"
  /\ LET payload == req[p].payload
         gym     == Lookup(gyms, NoGym, payload.gymId)
     IN req' = [req EXCEPT ![p] =
          IF payload.kind = "invalid"
          THEN Respond(req[p], 400, "Invalid QR code data")
          ELSE IF payload.kind = "null"
          THEN Fail(req[p], "TypeError")
          ELSE IF ~gym.exists
          THEN Respond(req[p], 404, "Gym not found")
          ELSE IF ~verifyQRCode(payload, gym, payload.gymId, now)
          THEN Respond([req[p] EXCEPT !.gym = gym, !.at = now], 400,
                       "Invalid or expired QR code")
          ELSE [req[p] EXCEPT !.pc = "scan_user", !.gym = gym, !.at = now,
                              !.gymId = payload.gymId, !.verified = TRUE]]
  /\ UNCHANGED <<users, gyms, txlog, now, nextCode, nextTx, faults, served, users0, issued, stale>>

\* The scan with the price read from the payload instead of the gym
MutScanFindUser(p) ==
  /\ req[p].pc = "scan_user"
  /\ LET user           == users[req[p].actor]
         pointsRequired == req[p].payload.pointsRequired
     IN req' = [req EXCEPT ![p] =
          IF ~user.exists
          THEN Respond(req[p], 404, "User not found")
          ELSE IF user.points < pointsRequired
          THEN Respond([req[p] EXCEPT !.user = user, !.before = user.points],
                       400, "Not enough points")
          ELSE [req[p] EXCEPT !.pc = "L_find", !.user = user,
                  !.before = user.points,
                  !.ldata = [userId |-> req[p].actor, gymId |-> req[p].gymId,
                             points |-> pointsRequired, half |-> 0,
                             str |-> FALSE,
                             type |-> "SPEND",
                             createdBy |-> Missing,
                             qrCodeId |-> req[p].payload.id,
                             deviceInfo |-> req[p].deviceInfo,
                             location |-> req[p].location]]]
  /\ UNCHANGED <<users, gyms, txlog, now, nextCode, nextTx, faults, served, users0, issued, stale>>

\* User.findById(userId), the points check, transactionData
ScanFindUser(p) ==
  /\ req[p].pc = "scan_user"
  /\ LET user           == users[req[p].actor]
         pointsRequired == req[p].gym.pointsRequired
     IN req' = [req EXCEPT ![p] =
          IF ~user.exists
          THEN Respond(req[p], 404, "User not found")
          ELSE IF user.points < pointsRequired
          THEN Respond([req[p] EXCEPT !.user = user, !.before = user.points],
                       400, "Not enough points")
          ELSE [req[p] EXCEPT !.pc = "L_find", !.user = user,
                  !.before = user.points,
                  !.ldata = [userId |-> req[p].actor, gymId |-> req[p].gymId,
                             points |-> pointsRequired, half |-> 0,
                             str |-> FALSE,
                             type |-> "SPEND",
                             createdBy |-> Missing,
                             qrCodeId |-> req[p].payload.id,
                             deviceInfo |-> req[p].deviceInfo,
                             location |-> req[p].location]]]
  /\ UNCHANGED <<users, gyms, txlog, now, nextCode, nextTx, faults, served, users0, issued, stale>>

\* The whole amounts from..MaxAmount a request body may carry.
Amounts(from) ==
  {[points |-> n, half |-> 0, str |-> FALSE] : n \in from .. MaxAmount}

\* The same amounts sent as strings of digits, as in {"points": "2"}.
TextAmounts == {[a EXCEPT !.str = TRUE] : a \in Amounts(1)}

(***************************************************************************)
(* POST /api/transactions                                                  *)
(***************************************************************************)
StartManual(p, actors, targets, gymIds, types, amounts) ==
  \E a \in actors, u \in targets, g \in gymIds,
     n \in amounts, t \in types :
    /\ Protect(p, a,
               {ROLES.SUPER_ADMIN, ROLES.ADMIN, ROLES.GYM}
                 \cap PERMISSIONS.CREATE_TRANSACTION,
               [Idle EXCEPT !.op = "manual", !.pc = "manual_user",
                            !.target = u, !.gymId = g, !.points = n.points,
                            !.half = n.half, !.str = n.str, !.type = t])
    /\ UNCHANGED <<gyms, txlog, now, nextCode, nextTx, faults, served, users0, issued>>

\* validationResult(req), User.findById(userId).  errors.array() lists every
\* failed check; the message kept here is that of the amount when it is
\* among them.
ManualFindUser(p) ==
  /\ req[p].pc = "manual_user"
  /\ LET user == users[req[p].target] IN
       req' = [req EXCEPT ![p] =
          IF ~isInt(req[p].points, req[p].half, 1)
          THEN Respond(req[p], 400, "Points must be a positive number")
          ELSE IF req[p].gymId = Missing
          THEN Respond(req[p], 400, "Gym ID is required")
          ELSE IF ~user.exists
          THEN Respond(req[p], 404, "User not found")
          ELSE [req[p] EXCEPT !.pc = "manual_gym", !.user = user,
                              !.before = user.points]]
  /\ UNCHANGED <<users, gyms, txlog, now, nextCode, nextTx, faults, served, users0, issued, stale>>

\* Gym.findById(gymId), the gym-role and points checks, transactionData
ManualFindGym(p) ==
  /\ req[p].pc = "manual_gym"
  /\ LET gym == gyms[req[p].gymId]
         r   == req[p]
     IN req' = [req EXCEPT ![p] =
          IF ~gym.exists
          THEN Respond(r, 404, "Gym not found")
          ELSE IF r.ruser.role = "gym" /\ r.gymId \notin r.ruser.assignedGyms
          THEN Respond(r, 403, "Not authorized to create transactions for this gym")
          ELSE IF r.type = "SPEND" /\ r.user.points < r.points
          THEN Respond(r, 400, "User does not have enough points")
          ELSE [r EXCEPT !.pc = "L_find", !.gym = gym,
                  !.ldata = [userId |-> r.target, gymId |-> r.gymId,
                             points |-> r.points, half |-> r.half,
                             str |-> r.str, type |-> r.type,
                             createdBy |-> r.actor, qrCodeId |-> NoCode,
                             deviceInfo |-> Missing, location |-> Missing]]]
  /\ UNCHANGED <<users, gyms, txlog, now, nextCode, nextTx, faults, served, users0, issued, stale>>

(***************************************************************************)
(* POST /api/users/:id/points                                              *)
(***************************************************************************)
StartAddPoints(p, actors, targets, amounts) ==
  \E a \in actors, u \in targets, g \in GymIds \cup {Missing},
     n \in amounts :
    /\ Protect(p, a, {ROLES.SUPER_ADMIN, ROLES.ADMIN},
               [Idle EXCEPT !.op = "addPoints", !.pc = "add_user",
                            !.target = u, !.gymId = g, !.points = n.points,
                            !.half = n.half, !.str = n.str])
    /\ UNCHANGED <<gyms, txlog, now, nextCode, nextTx, faults, served, users0, issued>>

\* the points check, User.findById(userId), user.points += points
AddFindUser(p) ==
  /\ req[p].pc = "add_user"
  /\ LET user   == users[req[p].target]
         r      == req[p]
         points == Halves(r.points, r.half)
         sum    == Plus(Halves(user.points, user.half), points, r.str)
     IN req' = [req EXCEPT ![p] =
          IF points = 0 \/ points <= 0
          THEN Respond(r, 400, "Points must be a positive number")
          ELSE IF ~user.exists
          THEN Respond(r, 404, "User not found")
          ELSE [r EXCEPT !.pc = "add_save", !.before = user.points,
                  !.user = [user EXCEPT !.points = Whole(sum),
                                        !.half = Frac(sum)]]]
  /\ UNCHANGED <<users, gyms, txlog, now, nextCode, nextTx, faults, served, users0, issued, stale>>

\* user.save(), then transactionData for Transaction.createTransaction
AddSave(p) ==
  /\ req[p].pc = "add_save"
  /\ LET r == req[p]
         u == r.target
     IN /\ r.user.points <= Cap(r.str)
        /\ LockedBy(u) = {}
        /\ IF ~UserPointsValid(r.user.points)
           THEN /\ req' = [req EXCEPT ![p] = Fail(r, "ValidationError")]
                /\ UNCHANGED <<users, stale>>
           ELSE IF ~users[u].exists
           THEN /\ req' = [req EXCEPT ![p] = Fail(r, "DocumentNotFoundError")]
                /\ UNCHANGED <<users, stale>>
           ELSE /\ users' = [users EXCEPT ![u].points = r.user.points,
                                          ![u].half = r.user.half]
                /\ stale' = Touched(u, p)
                /\ req' = [req EXCEPT ![p] =
                     [r EXCEPT !.pc = "L_find",
                        !.ldata = [userId |-> u, gymId |-> r.gymId,
                                   points |-> r.points, half |-> r.half,
                                   str |-> r.str, type |-> "EARN",
                                   createdBy |-> r.actor, qrCodeId |-> NoCode,
                                   deviceInfo |-> Missing,
                                   location |-> Missing]]]
  /\ UNCHANGED <<gyms, txlog, now, nextCode, nextTx, faults, served, users0, issued>>

(***************************************************************************)
(* POST /api/auth/register and POST /api/auth/register-admin.  An account  *)
(* is known by its email; the identity in target stands for it.            *)
(***************************************************************************)
DEFAULT_POINTS_FOR_NEW_USER == 100

StartRegisterUser(p, targets) ==
  \E u \in targets, role \in AllRoles \cup {Missing} :
    /\ req[p].op = "idle"
    /\ req' = [req EXCEPT ![p] =
                 [Idle EXCEPT !.op = "registerUser", !.pc = "register",
                              !.target = u, !.body = [NoBody EXCEPT !.role = role]]]
    /\ UNCHANGED <<users, gyms, txlog, now, nextCode, nextTx, faults, served, users0, issued, stale>>

StartRegisterAdmin(p, actors, targets) ==
  \E a \in actors, u \in targets, role \in AllRoles :
    /\ Protect(p, a, {ROLES.SUPER_ADMIN},
               [Idle EXCEPT !.op = "registerAdmin", !.pc = "register",
                            !.target = u, !.body = [NoBody EXCEPT !.role = role]])
    /\ UNCHANGED <<gyms, txlog, now, nextCode, nextTx, faults, served, users0, issued>>

\* User.findOne({ email }) and User.create; the unique index on email
\* refuses a second account of the same email
RegisterCreate(p) ==
  /\ req[p].pc = "register"
  /\ LET r    == req[p]
         role == IF r.op = "registerAdmin" THEN r.body.role ELSE ROLES.USER
     IN IF users[r.target].exists
        THEN /\ req' = [req EXCEPT ![p] =
                  Respond(r, 400, "User with this email already exists")]
             /\ UNCHANGED users
        ELSE /\ users' = [users EXCEPT ![r.target] =
                  [exists |-> TRUE, points |-> DEFAULT_POINTS_FOR_NEW_USER,
                   half |-> 0, role |-> role, isActive |-> TRUE,
                   assignedGyms |-> {}, lastLogin |-> NoDate]]
             /\ req' = [req EXCEPT ![p] = Respond(r, 201, "success")]
  /\ UNCHANGED <<gyms, txlog, now, nextCode, nextTx, faults, served, users0, issued, stale>>

(***************************************************************************)
(* POST /api/auth/login                                                    *)
(***************************************************************************)
StartLogin(p, targets) ==
  \E u \in targets, isMatch \in BOOLEAN :
    /\ req[p].op = "idle"
    /\ req' = [req EXCEPT ![p] =
                 [Idle EXCEPT !.op = "login", !.pc = "login_find",
                              !.target = u, !.verified = isMatch]]
    /\ UNCHANGED <<users, gyms, txlog, now, nextCode, nextTx, faults, served, users0, issued, stale>>

\* User.findOne({ email }), the isActive test and comparePassword
LoginFind(p) ==
  /\ req[p].pc = "login_find"
  /\ LET r    == req[p]
         user == users[r.target]
     IN req' = [req EXCEPT ![p] =
          IF ~user.exists
          THEN Respond(r, 401, "Invalid credentials")
          ELSE IF ~user.isActive
          THEN Respond(r, 403, "Your account has been disabled")
          ELSE IF ~r.verified
          THEN Respond(r, 401, "Invalid credentials")
          ELSE [r EXCEPT !.pc = "login_save", !.user = user]]
  /\ UNCHANGED <<users, gyms, txlog, now, nextCode, nextTx, faults, served, users0, issued, stale>>

\* user.lastLogin = new Date(); user.save(); the token
LoginSave(p) ==
  /\ req[p].pc = "login_save"
  /\ LET r == req[p]
         u == r.target
     IN /\ LockedBy(u) = {}
        /\ IF ~users[u].exists
           THEN /\ req' = [req EXCEPT ![p] = Fail(r, "DocumentNotFoundError")]
                /\ UNCHANGED <<users, stale>>
           ELSE /\ users' = [users EXCEPT ![u].lastLogin = now]
                /\ stale' = Touched(u, p)
                /\ req' = [req EXCEPT ![p] = Respond(r, 200, "success")]
  /\ UNCHANGED <<gyms, txlog, now, nextCode, nextTx, faults, served, users0, issued>>

(***************************************************************************)
(* canManageUser, the middleware in front of PUT and DELETE /api/users/:id *)
(***************************************************************************)
CanManageUser(p) ==
  /\ req[p].pc = "manage"
  /\ LET r          == req[p]
         targetUser == users[r.target]
         admitted   == [r EXCEPT !.pc = IF r.op = "updateUser"
                                        THEN "update_user" ELSE "delete_user"]
     IN req' = [req EXCEPT ![p] =
          IF r.ruser.role = "user"
          THEN IF r.actor # r.target
               THEN Respond(r, 403, "You can only manage your own account")
               ELSE admitted
          ELSE IF r.ruser.role = "super_admin"
          THEN admitted
          ELSE IF ~targetUser.exists
          THEN Respond(r, 404, "User not found")
          ELSE IF \/ r.ruser.role = "admin"
                     /\ targetUser.role \in {"super_admin", "admin"}
                  \/ r.ruser.role = "gym"
                     /\ targetUser.role \in {"super_admin", "admin", "gym"}
          THEN Respond(r, 403, "You cannot manage users with equal or higher roles")
          ELSE admitted]
  /\ UNCHANGED <<users, gyms, txlog, now, nextCode, nextTx, faults, served, users0, issued, stale>>

(***************************************************************************)
(* PUT /api/users/:id                                                      *)
(***************************************************************************)
UpdateUserBodies ==
  {[NoBody EXCEPT !.points = v] : v \in {JsNum(-1), JsNum(0), JsNum(MaxPoints - 1)}}
  \cup {[NoBody EXCEPT !.isActive = "false"]}

\* Bodies that set the isActive flag.
ActiveBodies == {[NoBody EXCEPT !.isActive = v] : v \in {"false", "true"}}

\* Bodies that name a role.
RoleBodies == {[NoBody EXCEPT !.role = r] : r \in AllRoles}

StartUpdateUser(p, actors, targets, bodies) ==
  \E a \in actors, u \in targets, b \in bodies :
    /\ Protect(p, a, AllRoles,
               [Idle EXCEPT !.op = "updateUser", !.pc = "manage",
                            !.target = u, !.body = b])
    /\ UNCHANGED <<gyms, txlog, now, nextCode, nextTx, faults, served, users0, issued>>

\* User.findById(userId) and the assignments to the loaded document
UpdateFindUser(p) ==
  /\ req[p].pc = "update_user"
  /\ LET r       == req[p]
         user    == users[r.target]
         isAdmin == r.ruser.role \in {ROLES.SUPER_ADMIN, ROLES.ADMIN}
         role    == IF /\ isAdmin
                       /\ r.body.role # Missing
                       /\ \/ r.ruser.role = ROLES.SUPER_ADMIN
                          \/ r.body.role # ROLES.SUPER_ADMIN
                    THEN r.body.role ELSE user.role
         points  == IF isAdmin /\ r.body.points.k # "undefined"
                    THEN CastNumber(r.body.points) ELSE user.points
         half    == IF isAdmin /\ r.body.points.k # "undefined"
                    THEN 0 ELSE user.half
         active  == IF isAdmin /\ r.body.isActive # Missing
                    THEN r.body.isActive = "true" ELSE user.isActive
     IN req' = [req EXCEPT ![p] =
          IF r.ruser.role = ROLES.USER /\ r.actor # r.target
          THEN Respond(r, 403, "Not authorized to update this user")
          ELSE IF ~user.exists
          THEN Respond(r, 404, "User not found")
          ELSE [r EXCEPT !.pc = "update_save",
                  !.user = [user EXCEPT !.role = role, !.points = points,
                                        !.half = half, !.isActive = active],
                  !.mods = {f \in {"role", "points", "isActive"} :
                              CASE f = "role" -> role # user.role
                                [] f = "points" -> \/ points # user.points
                                                   \/ half # user.half
                                [] f = "isActive" -> active # user.isActive}]]
  /\ UNCHANGED <<users, gyms, txlog, now, nextCode, nextTx, faults, served, users0, issued, stale>>

\* user.save(): validates, then writes the modified paths
UpdateSave(p) ==
  /\ req[p].pc = "update_save"
  /\ LET r == req[p]
         u == r.target
     IN IF r.mods = {}
        THEN /\ req' = [req EXCEPT ![p] = Respond(r, 200, "success")]
             /\ UNCHANGED <<users, stale>>
        ELSE IF "points" \in r.mods /\ ~UserPointsValid(r.user.points)
        THEN /\ req' = [req EXCEPT ![p] = Fail(r, "ValidationError")]
             /\ UNCHANGED <<users, stale>>
        ELSE /\ LockedBy(u) = {}
             /\ IF ~users[u].exists
                THEN /\ req' = [req EXCEPT ![p] = Fail(r, "DocumentNotFoundError")]
                     /\ UNCHANGED <<users, stale>>
                ELSE /\ users' = [users EXCEPT ![u] =
                          [users[u] EXCEPT
                             !.role = IF "role" \in r.mods
                                      THEN r.user.role ELSE @,
                             !.points = IF "points" \in r.mods
                                        THEN r.user.points ELSE @,
                             !.half = IF "points" \in r.mods
                                      THEN r.user.half ELSE @,
                             !.isActive = IF "isActive" \in r.mods
                                          THEN r.user.isActive ELSE @]]
                     /\ stale' = Touched(u, p)
                     /\ req' = [req EXCEPT ![p] = Respond(r, 200, "success")]
  /\ UNCHANGED <<gyms, txlog, now, nextCode, nextTx, faults, served, users0, issued>>

(***************************************************************************)
(* DELETE /api/users/:id                                                   *)
(***************************************************************************)
StartDeleteUser(p, actors, targets) ==
  \E a \in actors, u \in targets :
    /\ Protect(p, a, {ROLES.SUPER_ADMIN, ROLES.ADMIN},
               [Idle EXCEPT !.op = "deleteUser", !.pc = "manage",
                            !.target = u])
    /\ UNCHANGED <<gyms, txlog, now, nextCode, nextTx, faults, served, users0, issued>>

\* User.findById(userId) and the super admin check
DeleteFindUser(p) ==
  /\ req[p].pc = "delete_user"
  /\ LET r    == req[p]
         user == users[r.target]
     IN req' = [req EXCEPT ![p] =
          IF ~user.exists
          THEN Respond(r, 404, "User not found")
          ELSE IF user.role = ROLES.SUPER_ADMIN
                  /\ r.ruser.role # ROLES.SUPER_ADMIN
          THEN Respond(r, 403, "Not authorized to delete this user")
          ELSE [r EXCEPT !.pc = "delete_one", !.user = user]]
  /\ UNCHANGED <<users, gyms, txlog, now, nextCode, nextTx, faults, served, users0, issued, stale>>

\* user.deleteOne() that also removes the account's transaction records
MutDeleteOne(p) ==
  /\ req[p].pc = "delete_one"
  /\ LockedBy(req[p].target) = {}
  /\ users' = [users EXCEPT ![req[p].target] = NoUser]
  /\ txlog' = {rec \in txlog : rec.userId # req[p].target}
  /\ stale' = Touched(req[p].target, p)
  /\ req' = [req EXCEPT ![p] = Respond(req[p], 200, "User deleted successfully")]
  /\ UNCHANGED <<gyms, now, nextCode, nextTx, faults, served, users0, issued>>

\* user.deleteOne()
DeleteOne(p) ==
  /\ req[p].pc = "delete_one"
  /\ LockedBy(req[p].target) = {}
  /\ users' = [users EXCEPT ![req[p].target] = NoUser]
  /\ stale' = Touched(req[p].target, p)
  /\ req' = [req EXCEPT ![p] = Respond(req[p], 200, "User deleted successfully")]
  /\ UNCHANGED <<gyms, txlog, now, nextCode, nextTx, faults, served, users0, issued>>

(***************************************************************************)
(* PUT /api/gyms/:id                                                       *)
(***************************************************************************)
UpdateGymBodies ==
  {[NoBody EXCEPT !.pointsRequired = v] :
     v \in {JsNum(0), JsStr(0), JsNum(-1), JsNum(1), JsNum(MaxPoints - 1)}}

\* canManageGym: admins can only manage assigned gyms
canManageGym(ruser, gymId) ==
  IF ruser.role = "super_admin" THEN TRUE
  ELSE IF ruser.role = "admin" THEN gymId \in ruser.assignedGyms
  ELSE TRUE

StartUpdateGym(p, actors) ==
  \E a \in actors, g \in GymIds, b \in UpdateGymBodies :
    /\ Protect(p, a,
               IF canManageGym(users[a], g)
               THEN {ROLES.SUPER_ADMIN, ROLES.ADMIN} \cap PERMISSIONS.UPDATE_GYM
               ELSE {},
               [Idle EXCEPT !.op = "updateGym", !.pc = "gym_find",
                            !.gymId = g, !.body = b])
    /\ UNCHANGED <<gyms, txlog, now, nextCode, nextTx, faults, served, users0, issued>>

\* Gym.findById(gymId), the admin check and the assignments
UpdateGymFind(p) ==
  /\ req[p].pc = "gym_find"
  /\ LET r   == req[p]
         gym == gyms[r.gymId]
     IN req' = [req EXCEPT ![p] =
          IF ~gym.exists
          THEN Respond(r, 404, "Gym not found")
          ELSE IF r.ruser.role = ROLES.ADMIN /\ r.actor \notin gym.admins
          THEN Respond(r, 403, "Not authorized to update this gym")
          ELSE [r EXCEPT !.pc = "gym_save",
                  !.gym = IF Truthy(r.body.pointsRequired)
                          THEN [gym EXCEPT !.pointsRequired =
                                             CastNumber(r.body.pointsRequired)]
                          ELSE gym,
                  !.mods = IF Truthy(r.body.pointsRequired)
                              /\ CastNumber(r.body.pointsRequired)
                                   # gym.pointsRequired
                           THEN {"pointsRequired"} ELSE {}]]
  /\ UNCHANGED <<users, gyms, txlog, now, nextCode, nextTx, faults, served, users0, issued, stale>>

\* gym.save()
UpdateGymSave(p) ==
  /\ req[p].pc = "gym_save"
  /\ LET r == req[p]
         g == r.gymId
     IN IF r.mods = {}
        THEN /\ req' = [req EXCEPT ![p] = Respond(r, 200, "success")]
             /\ UNCHANGED gyms
        ELSE IF ~GymPointsRequiredValid(r.gym.pointsRequired)
        THEN /\ req' = [req EXCEPT ![p] = Fail(r, "ValidationError")]
             /\ UNCHANGED gyms
        ELSE IF ~gyms[g].exists
        THEN /\ req' = [req EXCEPT ![p] = Fail(r, "DocumentNotFoundError")]
             /\ UNCHANGED gyms
        ELSE /\ gyms' = [gyms EXCEPT ![g].pointsRequired = r.gym.pointsRequired]
             /\ req' = [req EXCEPT ![p] = Respond(r, 200, "success")]
  /\ UNCHANGED <<users, txlog, now, nextCode, nextTx, faults, served, users0, issued, stale>>

(***************************************************************************)
(* DELETE /api/gyms/:id                                                    *)
(***************************************************************************)
StartDeleteGym(p, actors) ==
  \E a \in actors, g \in GymIds :
    /\ Protect(p, a, {ROLES.SUPER_ADMIN} \cap PERMISSIONS.DELETE_GYM,
               [Idle EXCEPT !.op = "deleteGym", !.pc = "gymdel_find",
                            !.gymId = g])
    /\ UNCHANGED <<gyms, txlog, now, nextCode, nextTx, faults, served, users0, issued>>

\* Gym.findById(gymId)
DeleteGymFind(p) ==
  /\ req[p].pc = "gymdel_find"
  /\ LET gym == gyms[req[p].gymId] IN
       req' = [req EXCEPT ![p] =
          IF ~gym.exists
          THEN Respond(req[p], 404, "Gym not found")
          ELSE [req[p] EXCEPT !.pc = "gymdel_pull", !.gym = gym]]
  /\ UNCHANGED <<users, gyms, txlog, now, nextCode, nextTx, faults, served, users0, issued, stale>>

\* User.updateMany({assignedGyms: gymId}, {$pull: {assignedGyms: gymId}})
DeleteGymPull(p) ==
  /\ req[p].pc = "gymdel_pull"
  /\ LET g       == req[p].gymId
         matched == {u \in UserIds : users[u].exists
                                     /\ g \in users[u].assignedGyms}
     IN /\ \A u \in matched : LockedBy(u) = {}
        /\ users' = [u \in UserIds |->
                       IF u \in matched
                       THEN [users[u] EXCEPT !.assignedGyms = @ \ {g}]
                       ELSE users[u]]
        /\ stale' = [q \in Procs |->
                       IF q # p /\ req[q].pc \in {"L_create", "L_save"}
                          /\ req[q].ldata.userId \in matched
                       THEN TRUE ELSE stale[q]]
  /\ req' = [req EXCEPT ![p].pc = "gymdel_one"]
  /\ UNCHANGED <<gyms, txlog, now, nextCode, nextTx, faults, served, users0, issued>>

\* gym.deleteOne()
DeleteGymOne(p) ==
  /\ req[p].pc = "gymdel_one"
  /\ gyms' = [gyms EXCEPT ![req[p].gymId] = NoGym]
  /\ req' = [req EXCEPT ![p] = Respond(req[p], 200, "Gym deleted successfully")]
  /\ UNCHANGED <<users, txlog, now, nextCode, nextTx, faults, served, users0, issued, stale>>

(***************************************************************************)
(* POST /api/gyms                                                          *)
(***************************************************************************)
DEFAULT_POINTS_REQUIRED == 10

StartCreateGym(p, actors) ==
  \E a \in actors :
    /\ Protect(p, a, {ROLES.SUPER_ADMIN, ROLES.ADMIN} \cap PERMISSIONS.CREATE_GYM,
               [Idle EXCEPT !.op = "createGym", !.pc = "gymc_create"])
    /\ UNCHANGED <<gyms, txlog, now, nextCode, nextTx, faults, served, users0, issued>>

\* Gym.create(gymData).  The unique index on qrCode.code admits one gym
\* without a code.
CreateGymCreate(p) ==
  /\ req[p].pc = "gymc_create"
  /\ LET r == req[p] IN
       IF \E g \in GymIds : gyms[g].exists /\ gyms[g].qrCode.code = NoCode
       THEN /\ req' = [req EXCEPT ![p] =
                 Respond(r, 400, "Duplicate value for qrCode.code")]
            /\ UNCHANGED gyms
       ELSE \E g \in GymIds :
              /\ ~gyms[g].exists
              /\ gyms' = [gyms EXCEPT ![g] =
                   [exists |-> TRUE, pointsRequired |-> DEFAULT_POINTS_REQUIRED,
                    qrCode |-> [code |-> NoCode, expiresAt |-> NoDate],
                    admins |-> IF r.ruser.role = ROLES.ADMIN
                               THEN {r.actor} ELSE {}]]
              /\ req' = [req EXCEPT ![p] =
                   IF r.ruser.role = ROLES.ADMIN
                   THEN [r EXCEPT !.pc = "gymc_assign", !.gymId = g]
                   ELSE Respond([r EXCEPT !.gymId = g], 201, "success")]
  /\ UNCHANGED <<users, txlog, now, nextCode, nextTx, faults, served, users0, issued, stale>>

\* User.findByIdAndUpdate(req.user._id, {$addToSet: {assignedGyms: gym._id}})
CreateGymAssign(p) ==
  /\ req[p].pc = "gymc_assign"
  /\ LET r == req[p] IN
       /\ LockedBy(r.actor) = {}
       /\ IF users[r.actor].exists
          THEN /\ users' = [users EXCEPT ![r.actor].assignedGyms = @ \cup {r.gymId}]
               /\ stale' = Touched(r.actor, p)
          ELSE UNCHANGED <<users, stale>>
       /\ req' = [req EXCEPT ![p] = Respond(r, 201, "success")]
  /\ UNCHANGED <<gyms, txlog, now, nextCode, nextTx, faults, served, users0, issued>>

(***************************************************************************)
(* POST /api/gyms/:id/admins and DELETE /api/gyms/:id/admins/:userId       *)
(***************************************************************************)
StartAssignAdmin(p, actors, targets) ==
  \E a \in actors, u \in targets, g \in GymIds :
    /\ Protect(p, a, {ROLES.SUPER_ADMIN} \cap PERMISSIONS.MANAGE_ADMINS,
               [Idle EXCEPT !.op = "assignAdmin", !.pc = "admin_gym",
                            !.target = u, !.gymId = g])
    /\ UNCHANGED <<gyms, txlog, now, nextCode, nextTx, faults, served, users0, issued>>

StartRemoveAdmin(p, actors, targets) ==
  \E a \in actors, u \in targets, g \in GymIds :
    /\ Protect(p, a, {ROLES.SUPER_ADMIN} \cap PERMISSIONS.MANAGE_ADMINS,
               [Idle EXCEPT !.op = "removeAdmin", !.pc = "admin_gym",
                            !.target = u, !.gymId = g])
    /\ UNCHANGED <<gyms, txlog, now, nextCode, nextTx, faults, served, users0, issued>>

\* Gym.findById(gymId)
AdminFindGym(p) ==
  /\ req[p].pc = "admin_gym"
  /\ LET gym == gyms[req[p].gymId] IN
       req' = [req EXCEPT ![p] =
          IF ~gym.exists
          THEN Respond(req[p], 404, "Gym not found")
          ELSE [req[p] EXCEPT !.pc = "admin_user", !.gym = gym]]
  /\ UNCHANGED <<users, gyms, txlog, now, nextCode, nextTx, faults, served, users0, issued, stale>>

\* User.findById(userId), assignAdmin's role check, and the change of the
\* loaded user's assignedGyms
AdminFindUser(p) ==
  /\ req[p].pc = "admin_user"
  /\ LET r    == req[p]
         user == users[r.target]
     IN req' = [req EXCEPT ![p] =
          IF ~user.exists
          THEN Respond(r, 404, "User not found")
          ELSE IF r.op = "assignAdmin"
          THEN IF user.role \notin {ROLES.ADMIN, ROLES.GYM}
               THEN Respond(r, 400, "User must be an admin or gym user")
               ELSE IF r.gymId \in user.assignedGyms
               THEN [r EXCEPT !.pc = "admin_save_gym", !.user = user]
               ELSE [r EXCEPT !.pc = "admin_save_user",
                       !.user = [user EXCEPT !.assignedGyms = @ \cup {r.gymId}]]
          ELSE [r EXCEPT !.pc = "admin_save_user",
                  !.user = [user EXCEPT !.assignedGyms = @ \ {r.gymId}]]]
  /\ UNCHANGED <<users, gyms, txlog, now, nextCode, nextTx, faults, served, users0, issued, stale>>

\* user.save()
AdminSaveUser(p) ==
  /\ req[p].pc = "admin_save_user"
  /\ LET r == req[p]
         u == r.target
     IN /\ LockedBy(u) = {}
        /\ IF ~users[u].exists
           THEN /\ req' = [req EXCEPT ![p] = Fail(r, "DocumentNotFoundError")]
                /\ UNCHANGED <<users, stale>>
           ELSE /\ users' = [users EXCEPT ![u].assignedGyms = r.user.assignedGyms]
                /\ stale' = Touched(u, p)
                /\ req' = [req EXCEPT ![p].pc = "admin_save_gym"]
  /\ UNCHANGED <<gyms, txlog, now, nextCode, nextTx, faults, served, users0, issued>>

\* the change of the loaded gym's admins and gym.save()
AdminSaveGym(p) ==
  /\ req[p].pc = "admin_save_gym"
  /\ LET r      == req[p]
         g      == r.gymId
         admins == IF r.op = "assignAdmin" THEN r.gym.admins \cup {r.target}
                   ELSE r.gym.admins \ {r.target}
         done   == IF r.op = "assignAdmin"
                   THEN Respond(r, 200, "Admin assigned to gym successfully")
                   ELSE Respond(r, 200, "Admin removed from gym successfully")
     IN IF r.op = "assignAdmin" /\ r.target \in r.gym.admins
        THEN /\ req' = [req EXCEPT ![p] = done]
             /\ UNCHANGED gyms
        ELSE IF ~gyms[g].exists
        THEN /\ req' = [req EXCEPT ![p] = Fail(r, "DocumentNotFoundError")]
             /\ UNCHANGED gyms
        ELSE /\ gyms' = [gyms EXCEPT ![g].admins = admins]
             /\ req' = [req EXCEPT ![p] = done]
  /\ UNCHANGED <<users, txlog, now, nextCode, nextTx, faults, served, users0, issued, stale>>

(***************************************************************************)
(* GET /api/qr/generate/:gymId                                             *)
(***************************************************************************)
StartGenerate(p, actors) ==
  \E a \in actors, g \in GymIds :
    /\ Protect(p, a,
               {ROLES.SUPER_ADMIN, ROLES.ADMIN, ROLES.GYM}
                 \cap PERMISSIONS.GENERATE_QR,
               [Idle EXCEPT !.op = "generate", !.pc = "gen_find",
                            !.gymId = g])
    /\ UNCHANGED <<gyms, txlog, now, nextCode, nextTx, faults, served, users0, issued>>

\* Gym.findById(gymId); generateGymQRCode: uuidv4() and the payload
GenerateFind(p) ==
  /\ req[p].pc = "gen_find"
  /\ LET r   == req[p]
         gym == gyms[r.gymId]
     IN IF ~gym.exists
        THEN /\ req' = [req EXCEPT ![p] = Respond(r, 404, "Gym not found")]
             /\ UNCHANGED nextCode
        ELSE /\ nextCode <= MaxCodes
             /\ nextCode' = nextCode + 1
             /\ req' = [req EXCEPT ![p] =
                  [r EXCEPT !.pc = "gen_save", !.gym = gym,
                     !.qr = [code |-> nextCode, expiresAt |-> NoDate],
                     !.payload = [kind |-> "object", id |-> nextCode,
                                  gymId |-> r.gymId,
                                  pointsRequired |-> gym.pointsRequired]]]
  /\ UNCHANGED <<users, gyms, txlog, now, nextTx, faults, served, users0, issued, stale>>

\* The save that writes the token and leaves a stored expiry date as it is
MutGenerateSave(p) ==
  /\ req[p].pc = "gen_save"
  /\ LET r   == req[p]
         g   == r.gymId
         old == gyms[g].qrCode.expiresAt
         new == now + QR_CODE_EXPIRY
         qr  == [code |-> r.qr.code,
                 expiresAt |-> IF old # NoDate THEN old ELSE new]
     IN /\ gyms[g].exists
        /\ gyms' = [gyms EXCEPT ![g].qrCode = qr]
        /\ issued' = issued \cup {[gymId |-> g, code |-> qr.code,
                                    expiresAt |-> new, issuedAt |-> now,
                                    pointsRequired |->
                                      r.payload.pointsRequired]}
        /\ req' = [req EXCEPT ![p] =
                     Respond([r EXCEPT !.qr.expiresAt = new], 200, "success")]
  /\ UNCHANGED <<users, txlog, now, nextCode, nextTx, faults, served, users0, stale>>

\* generateGymQRCode after QRCode.toDataURL: the expiry date; then
\* gym.qrCode = {code, expiresAt}; gym.save()
GenerateSave(p) ==
  /\ req[p].pc = "gen_save"
  /\ LET r  == req[p]
         g  == r.gymId
         qr == [code |-> r.qr.code, expiresAt |-> now + QR_CODE_EXPIRY]
     IN IF ~gyms[g].exists
        THEN /\ req' = [req EXCEPT ![p] = Fail(r, "DocumentNotFoundError")]
             /\ UNCHANGED gyms
             /\ UNCHANGED issued
        ELSE /\ gyms' = [gyms EXCEPT ![g].qrCode = qr]
             /\ issued' = issued \cup {[gymId |-> g, code |-> qr.code,
                                         expiresAt |-> qr.expiresAt,
                                         issuedAt |-> now,
                                         pointsRequired |->
                                           r.payload.pointsRequired]}
             /\ req' = [req EXCEPT ![p] =
                          Respond([r EXCEPT !.qr = qr], 200, "success")]
  /\ UNCHANGED <<users, txlog, now, nextCode, nextTx, faults, served, users0, stale>>

(***************************************************************************)
(* GET /api/qr/status/:gymId                                               *)
(***************************************************************************)
StartStatus(p, actors) ==
  \E a \in actors, g \in GymIds :
    /\ Protect(p, a, {ROLES.SUPER_ADMIN, ROLES.ADMIN, ROLES.GYM},
               [Idle EXCEPT !.op = "status", !.pc = "status_find",
                            !.gymId = g])
    /\ UNCHANGED <<gyms, txlog, now, nextCode, nextTx, faults, served, users0, issued>>

\* A status query that clears a session it finds expired
MutStatusFind(p) ==
  /\ req[p].pc = "status_find"
  /\ LET r   == req[p]
         gym == gyms[r.gymId]
     IN IF gym.exists /\ gym.qrCode.code # NoCode /\ isQRCodeExpired(gym, now)
        THEN /\ gyms' = [gyms EXCEPT ![r.gymId].qrCode =
                                        [code |-> NoCode, expiresAt |-> NoDate]]
             /\ req' = [req EXCEPT ![p] =
                  Respond([r EXCEPT !.gym = gym, !.at = now,
                                    !.hasQRCode = TRUE, !.isExpired = TRUE,
                                    !.qr = gym.qrCode],
                          200, "QR code has expired")]
        ELSE /\ UNCHANGED gyms
             /\ req' = [req EXCEPT ![p] =
                  IF ~gym.exists
                  THEN Respond(r, 404, "Gym not found")
                  ELSE IF gym.qrCode.code = NoCode
                  THEN Respond([r EXCEPT !.gym = gym, !.at = now,
                                         !.hasQRCode = FALSE],
                               200, "No QR code generated for this gym")
                  ELSE Respond([r EXCEPT !.gym = gym, !.at = now,
                                         !.hasQRCode = TRUE,
                                         !.isExpired = FALSE,
                                         !.qr = gym.qrCode],
                               200, "QR code is valid")]
  /\ UNCHANGED <<users, txlog, now, nextCode, nextTx, faults, served, users0, issued, stale>>

\* Gym.findById(gymId), the code test and gym.isQRCodeExpired()
StatusFind(p) ==
  /\ req[p].pc = "status_find"
  /\ LET r   == req[p]
         gym == gyms[r.gymId]
     IN req' = [req EXCEPT ![p] =
          IF ~gym.exists
          THEN Respond(r, 404, "Gym not found")
          ELSE IF gym.qrCode.code = NoCode
          THEN Respond([r EXCEPT !.gym = gym, !.at = now,
                                 !.hasQRCode = FALSE],
                       200, "No QR code generated for this gym")
          ELSE LET isExpired == isQRCodeExpired(gym, now)
               IN Respond([r EXCEPT !.gym = gym, !.at = now,
                                    !.hasQRCode = TRUE,
                                    !.isExpired = isExpired,
                                    !.qr = gym.qrCode],
                          200, IF isExpired THEN "QR code has expired"
                               ELSE "QR code is valid")]
  /\ UNCHANGED <<users, gyms, txlog, now, nextCode, nextTx, faults, served, users0, issued, stale>>

(***************************************************************************)
(* A direct call verifyQRCode(payload, gym), as a unit test makes it.      *)
(***************************************************************************)
CallVerify(p) ==
  /\ req[p].op = "idle"
  /\ \E payload \in Payloads, g \in GymIds :
       /\ gyms[g].exists
       /\ payload.kind # "invalid"
       /\ req' = [req EXCEPT ![p] =
            [Respond([Idle EXCEPT !.op = "verify", !.payload = payload,
                                  !.gymId = g, !.gym = gyms[g]],
                     200, "verified")
               EXCEPT !.verified = verifyQRCode(payload, gyms[g], g, now),
                      !.at = now]]
  /\ UNCHANGED <<users, gyms, txlog, now, nextCode, nextTx, faults, served, users0, issued, stale>>

(***************************************************************************)
(* Environment.                                                            *)
(***************************************************************************)
TickHours == QR_CODE_EXPIRY \div 2

Tick ==
  /\ now + TickHours <= MaxTime
  /\ now' = now + TickHours
  /\ UNCHANGED <<users, gyms, txlog, nextCode, nextTx, faults, served, users0, issued, req, stale>>

\* The response has been sent; the slot takes the next request.
Return(p) ==
  /\ req[p].pc = "done"
  /\ served < MaxServed
  /\ served' = served + 1
  /\ req' = [req EXCEPT ![p] = Idle]
  /\ UNCHANGED <<users, gyms, txlog, now, nextCode, nextTx, faults, stale,
                 users0, issued>>

(***************************************************************************)
(* Initial states: an account and an admin who manages gym g1; g2 is an id *)
(* that names no gym.  The balance of the account is any balance an admin  *)
(* can have given it.                                                      *)
(***************************************************************************)
Member(points) ==
  [exists |-> TRUE, points |-> points, role |-> ROLES.USER, isActive |-> TRUE,
   assignedGyms |-> {}, lastLogin |-> 0, half |-> 0]

Admin ==
  [exists |-> TRUE, points |-> 0, role |-> ROLES.ADMIN, isActive |-> TRUE,
   assignedGyms |-> {"g1"}, lastLogin |-> 0, half |-> 0]

Gym(price, qr) ==
  [exists |-> TRUE, pointsRequired |-> price, qrCode |-> qr, admins |-> {"a1"}]

InitWith(balances, qr, code) ==
  /\ \E b \in balances : users = [u \in UserIds |->
                                    IF u = "u1" THEN Member(b) ELSE Admin]
  /\ gyms = [g \in GymIds |-> IF g = "g1" THEN Gym(InitPrice, qr) ELSE NoGym]
  /\ txlog = {}
  /\ now = 0
  /\ nextCode = code
  /\ nextTx = 1
  /\ faults = 0
  /\ served = 0
  /\ req = [p \in Procs |-> Idle]
  /\ stale = [p \in Procs |-> FALSE]
  /\ users0 = users
  /\ issued = IF qr.code = NoCode THEN {}
              ELSE {[gymId |-> "g1", code |-> qr.code,
                     expiresAt |-> qr.expiresAt, issuedAt |-> 0,
                     pointsRequired |-> InitPrice]}

\* The session issued at hour 0 and its payload.
FirstSession == [code |-> 1, expiresAt |-> QR_CODE_EXPIRY]
FirstPayload == [kind |-> "object", id |-> 1, gymId |-> "g1",
                 pointsRequired |-> InitPrice]

Init == InitWith(0 .. MaxPoints, FirstSession, 2)

Ledger(p) ==
  \/ LedgerFind(p)
  \/ LedgerCreate(p)
  \/ LedgerSave(p)
  \/ LedgerComplete(p)
  \/ LedgerCommit(p)
  \/ LedgerAbort(p)

(***************************************************************************)
(* Spec: two requests race from any initial state.                         *)
(***************************************************************************)
Next ==
  \E p \in Procs :
    \/ StartScan(p, {"u1"}, {FirstPayload})
    \/ ScanFindGym(p) \/ ScanFindUser(p)
    \/ StartManual(p, {"a1"}, {"u1"}, {"g1"}, {"EARN", "SPEND"}, Amounts(1))
    \/ ManualFindUser(p) \/ ManualFindGym(p)
    \/ StartAddPoints(p, {"a1"}, {"u1"}, Amounts(0))
    \/ AddFindUser(p) \/ AddSave(p)
    \/ StartUpdateUser(p, {"a1"}, {"u1"}, UpdateUserBodies)
    \/ StartDeleteUser(p, {"a1"}, {"u1"})
    \/ CanManageUser(p)
    \/ UpdateFindUser(p) \/ UpdateSave(p)
    \/ DeleteFindUser(p) \/ DeleteOne(p)
    \/ Ledger(p)
    \/ StorageFault(p)

Spec == Init /\ [][Next]_vars

(***************************************************************************)
(* SpecSeq: requests are served one at a time, in any order.               *)
(***************************************************************************)
NextSeq ==
  \E p \in {"p1"} :
    \/ StartScan(p, UserIds, {FirstPayload})
    \/ ScanFindGym(p) \/ ScanFindUser(p)
    \/ StartManual(p, UserIds, UserIds, GymIds, {"EARN", "SPEND"}, Amounts(1))
    \/ ManualFindUser(p) \/ ManualFindGym(p)
    \/ StartAddPoints(p, UserIds, UserIds, Amounts(0))
    \/ AddFindUser(p) \/ AddSave(p)
    \/ StartUpdateGym(p, UserIds)
    \/ UpdateGymFind(p) \/ UpdateGymSave(p)
    \/ Ledger(p)
    \/ Return(p)

SpecSeq == Init /\ [][NextSeq]_vars

(***************************************************************************)
(* SpecLog: every operation that writes, one request at a time; a1 is an   *)
(* admin or the super admin.                                               *)
(***************************************************************************)
SuperAdmin == [Admin EXCEPT !.role = ROLES.SUPER_ADMIN]

InitLog ==
  /\ \E b \in {0, InitPrice}, a \in {Admin, SuperAdmin} :
       users = [u \in UserIds |-> IF u = "u1" THEN Member(b) ELSE a]
  /\ gyms = [g \in GymIds |->
               IF g = "g1" THEN Gym(InitPrice, FirstSession) ELSE NoGym]
  /\ txlog = {}
  /\ now = 0
  /\ nextCode = FirstSession.code + 1
  /\ nextTx = 1
  /\ faults = 0
  /\ served = 0
  /\ req = [p \in Procs |-> Idle]
  /\ stale = [p \in Procs |-> FALSE]
  /\ users0 = users
  /\ issued = {[gymId |-> "g1", code |-> FirstSession.code,
                expiresAt |-> FirstSession.expiresAt, issuedAt |-> 0,
                pointsRequired |-> InitPrice]}

NextLog ==
  \E p \in {"p1"} :
    \/ StartScan(p, {"u1"}, {FirstPayload})
    \/ ScanFindGym(p) \/ ScanFindUser(p)
    \/ StartManual(p, {"a1"}, {"u1"}, {"g1"}, {"EARN", "SPEND"}, Amounts(1))
    \/ ManualFindUser(p) \/ ManualFindGym(p)
    \/ StartAddPoints(p, {"a1"}, {"u1"}, Amounts(0))
    \/ AddFindUser(p) \/ AddSave(p)
    \/ StartUpdateUser(p, {"a1"}, {"u1"}, UpdateUserBodies)
    \/ StartDeleteUser(p, {"a1"}, {"u1"})
    \/ CanManageUser(p)
    \/ UpdateFindUser(p) \/ UpdateSave(p)
    \/ DeleteFindUser(p) \/ DeleteOne(p)
    \/ StartUpdateGym(p, {"a1"})
    \/ UpdateGymFind(p) \/ UpdateGymSave(p)
    \/ StartDeleteGym(p, {"a1"})
    \/ DeleteGymFind(p) \/ DeleteGymPull(p) \/ DeleteGymOne(p)
    \/ Ledger(p)
    \/ StorageFault(p)
    \/ Return(p)

SpecLog == InitLog /\ [][NextLog]_vars

(***************************************************************************)
(* SpecAmount: one request after another, the amounts being any number a   *)
(* JSON body can carry: zero, negative, with a fraction.  The price of the *)
(* gym can be edited between the requests.                                 *)
(***************************************************************************)
AnyAmounts ==
  {[points |-> n, half |-> h, str |-> FALSE] :
     n \in -1 .. MaxAmount, h \in {0, 1}}

NextAmount ==
  \E p \in {"p1"} :
    \/ StartManual(p, {"a1"}, {"u1"}, {"g1", Missing}, {"EARN", "SPEND"},
                   AnyAmounts)
    \/ ManualFindUser(p) \/ ManualFindGym(p)
    \/ StartAddPoints(p, {"a1"}, {"u1"}, AnyAmounts)
    \/ AddFindUser(p) \/ AddSave(p)
    \/ StartUpdateGym(p, {"a1"})
    \/ UpdateGymFind(p) \/ UpdateGymSave(p)
    \/ StartScan(p, {"u1"}, {FirstPayload})
    \/ ScanFindGym(p) \/ ScanFindUser(p)
    \/ Ledger(p)
    \/ Return(p)

SpecAmount == Init /\ [][NextAmount]_vars

(***************************************************************************)
(* SpecRole: registrations, role edits and deletions by two requests at a  *)
(* time, the second account being an admin, a gym manager or a super admin.*)
(***************************************************************************)
GymManager == [Admin EXCEPT !.role = ROLES.GYM]

InitRole ==
  /\ \E u \in {Member(0), NoUser}, a \in {Admin, GymManager, SuperAdmin} :
       users = [v \in UserIds |-> IF v = "u1" THEN u ELSE a]
  /\ gyms = [g \in GymIds |->
               IF g = "g1" THEN Gym(InitPrice, FirstSession) ELSE NoGym]
  /\ txlog = {}
  /\ now = 0
  /\ nextCode = FirstSession.code + 1
  /\ nextTx = 1
  /\ faults = 0
  /\ served = 0
  /\ req = [p \in Procs |-> Idle]
  /\ stale = [p \in Procs |-> FALSE]
  /\ users0 = users
  /\ issued = {[gymId |-> "g1", code |-> FirstSession.code,
                expiresAt |-> FirstSession.expiresAt, issuedAt |-> 0,
                pointsRequired |-> InitPrice]}

NextRole ==
  \E p \in Procs :
    \/ StartRegisterUser(p, UserIds)
    \/ StartRegisterAdmin(p, UserIds, UserIds)
    \/ RegisterCreate(p)
    \/ StartUpdateUser(p, UserIds, UserIds, RoleBodies)
    \/ StartDeleteUser(p, UserIds, UserIds)
    \/ CanManageUser(p)
    \/ UpdateFindUser(p) \/ UpdateSave(p)
    \/ DeleteFindUser(p) \/ DeleteOne(p)
    \/ Return(p)

SpecRole == InitRole /\ [][NextRole]_vars

(***************************************************************************)
(* SpecSession: issuances and status queries by either account while the   *)
(* clock advances.  The second account is an admin, a gym manager or a     *)
(* super admin, assigned to g1 or to no gym.                               *)
(***************************************************************************)
Staff ==
  {[a EXCEPT !.assignedGyms = gs] :
     a \in {Admin, GymManager, SuperAdmin}, gs \in {{}, {"g1"}}}

InitSession ==
  /\ \E a \in Staff, qr \in {FirstSession, [code |-> NoCode, expiresAt |-> NoDate]} :
       /\ users = [v \in UserIds |-> IF v = "u1" THEN Member(MaxPoints) ELSE a]
       /\ gyms = [g \in GymIds |->
                    IF g = "g1"
                    THEN [Gym(InitPrice, qr) EXCEPT
                            !.admins = IF a.assignedGyms = {} THEN {}
                                       ELSE {"a1"}]
                    ELSE NoGym]
       /\ issued = IF qr.code = NoCode THEN {}
                   ELSE {[gymId |-> "g1", code |-> qr.code,
                          expiresAt |-> qr.expiresAt, issuedAt |-> 0,
                          pointsRequired |-> InitPrice]}
  /\ txlog = {}
  /\ now = 0
  /\ nextCode = FirstSession.code + 1
  /\ nextTx = 1
  /\ faults = 0
  /\ served = 0
  /\ req = [p \in Procs |-> Idle]
  /\ stale = [p \in Procs |-> FALSE]
  /\ users0 = users

NextSession ==
  \/ \E p \in Procs :
       \/ StartGenerate(p, UserIds)
       \/ GenerateFind(p) \/ GenerateSave(p)
       \/ StartStatus(p, UserIds)
       \/ StatusFind(p)
       \/ Return(p)
  \/ Tick

SpecSession == InitSession /\ [][NextSession]_vars

(***************************************************************************)
(* SpecLedger: the operations that reach the balance through               *)
(* Transaction.createTransaction alone, scans and manual transactions, in  *)
(* any order and interleaving.  The amount of a manual transaction is a    *)
(* number or a string of digits.                                           *)
(***************************************************************************)
InitLedger == InitWith({1, InitPrice}, FirstSession, FirstSession.code + 1)

NextLedger ==
  \E p \in Procs :
    \/ StartScan(p, {"u1"}, {FirstPayload})
    \/ ScanFindGym(p) \/ ScanFindUser(p)
    \/ StartManual(p, {"a1"}, {"u1"}, {"g1"}, {"EARN", "SPEND"},
                   Amounts(1) \cup TextAmounts)
    \/ ManualFindUser(p) \/ ManualFindGym(p)
    \/ Ledger(p)
    \/ StorageFault(p)
    \/ Return(p)

SpecLedger == InitLedger /\ [][NextLedger]_vars

(***************************************************************************)
(* SpecAdmin: gym administration, one request after another.  a1 is the    *)
(* super admin; u1 is an admin or a gym manager, of g1 or of no gym.       *)
(***************************************************************************)
InitAdmin ==
  /\ \E role \in {ROLES.ADMIN, ROLES.GYM}, gs \in {{}, {"g1"}} :
       /\ users = [v \in UserIds |->
                     IF v = "u1"
                     THEN [Admin EXCEPT !.role = role, !.assignedGyms = gs]
                     ELSE [SuperAdmin EXCEPT !.assignedGyms = {}]]
       /\ gyms = [g \in GymIds |->
                    IF g = "g1"
                    THEN [Gym(InitPrice, FirstSession) EXCEPT
                            !.admins = IF gs = {} THEN {} ELSE {"u1"}]
                    ELSE NoGym]
  /\ txlog = {}
  /\ now = 0
  /\ nextCode = FirstSession.code + 1
  /\ nextTx = 1
  /\ faults = 0
  /\ served = 0
  /\ req = [p \in Procs |-> Idle]
  /\ stale = [p \in Procs |-> FALSE]
  /\ users0 = users
  /\ issued = {[gymId |-> "g1", code |-> FirstSession.code,
                expiresAt |-> FirstSession.expiresAt, issuedAt |-> 0,
                pointsRequired |-> InitPrice]}

NextAdmin ==
  \E p \in {"p1"} :
    \/ StartCreateGym(p, UserIds)
    \/ CreateGymCreate(p) \/ CreateGymAssign(p)
    \/ StartAssignAdmin(p, {"a1"}, UserIds)
    \/ StartRemoveAdmin(p, {"a1"}, UserIds)
    \/ AdminFindGym(p) \/ AdminFindUser(p)
    \/ AdminSaveUser(p) \/ AdminSaveGym(p)
    \/ StartDeleteGym(p, {"a1"})
    \/ DeleteGymFind(p) \/ DeleteGymPull(p) \/ DeleteGymOne(p)
    \/ StartDeleteUser(p, {"a1"}, UserIds)
    \/ CanManageUser(p)
    \/ DeleteFindUser(p) \/ DeleteOne(p)
    \/ Return(p)

SpecAdmin == InitAdmin /\ [][NextAdmin]_vars

(***************************************************************************)
(* SpecActive: the admin switches the account off and on while the account *)
(* logs in and scans.                                                      *)
(***************************************************************************)
InitActive ==
  InitWith({MaxPoints}, FirstSession, FirstSession.code + 1)

NextActive ==
  \E p \in Procs :
    \/ StartUpdateUser(p, {"a1"}, {"u1"}, ActiveBodies)
    \/ CanManageUser(p)
    \/ UpdateFindUser(p) \/ UpdateSave(p)
    \/ StartLogin(p, {"u1"})
    \/ LoginFind(p) \/ LoginSave(p)
    \/ StartScan(p, {"u1"}, {FirstPayload})
    \/ ScanFindGym(p) \/ ScanFindUser(p)
    \/ Ledger(p)
    \/ Return(p)

SpecActive == InitActive /\ [][NextActive]_vars

(***************************************************************************)
(* SpecScan: two scans with any payload, while the clock advances and the  *)
(* gym's code may be reissued.  a1 is a second member or the admin.        *)
(***************************************************************************)
InitScan ==
  /\ \E b \in {0, MaxPoints}, a \in {Member(MaxPoints), Admin} :
       users = [u \in UserIds |-> IF u = "u1" THEN Member(b) ELSE a]
  /\ gyms = [g \in GymIds |->
               IF g = "g1" THEN Gym(InitPrice, FirstSession) ELSE NoGym]
  /\ txlog = {}
  /\ now = 0
  /\ nextCode = FirstSession.code + 1
  /\ nextTx = 1
  /\ faults = 0
  /\ served = 0
  /\ req = [p \in Procs |-> Idle]
  /\ stale = [p \in Procs |-> FALSE]
  /\ users0 = users
  /\ issued = {[gymId |-> "g1", code |-> FirstSession.code,
                expiresAt |-> FirstSession.expiresAt, issuedAt |-> 0,
                pointsRequired |-> InitPrice]}

ScanStep(p) == ScanFindGym(p) \/ ScanFindUser(p) \/ Ledger(p)

NextScan ==
  \/ \E p \in Procs :
       \/ StartScan(p, UserIds, Payloads)
       \/ ScanStep(p)
       \/ StartGenerate(p, {"a1"})
       \/ GenerateFind(p) \/ GenerateSave(p)
  \/ Tick

SpecScan == InitScan /\ [][NextScan]_vars

\* Every continuation of a started scan runs once the call it awaits has
\* been answered.
FairScan == SpecScan /\ \A p \in Procs : WF_vars(ScanStep(p))

(***************************************************************************)
(* SpecRace: two SPEND requests against the same account, nothing else.    *)
(***************************************************************************)
NextRace ==
  \E p \in Procs :
    \/ StartScan(p, {"u1"}, {FirstPayload})
    \/ ScanFindGym(p) \/ ScanFindUser(p)
    \/ StartManual(p, {"a1"}, {"u1"}, {"g1"}, {"SPEND"}, Amounts(1))
    \/ ManualFindUser(p) \/ ManualFindGym(p)
    \/ Ledger(p)

SpecRace == Init /\ [][NextRace]_vars

(***************************************************************************)
(* SpecQR: issuance, the clock and verification.  No session has been      *)
(* issued for g1 initially.                                                *)
(***************************************************************************)
InitQR == InitWith({MaxPoints}, [code |-> NoCode, expiresAt |-> NoDate], 1)

NextQR ==
  \/ \E p \in Procs :
       \/ StartGenerate(p, {"a1"})
       \/ GenerateFind(p) \/ GenerateSave(p)
       \/ CallVerify(p)
       \/ Return(p)
  \/ Tick

SpecQR == InitQR /\ [][NextQR]_vars

(***************************************************************************)
(* Properties.                                                             *)
(***************************************************************************)
Done(p) == req[p].pc = "done"

\* The records request p's ledger call has made visible in the log.
RecordsOf(p) == {rec \in txlog : rec.id = req[p].lrec.id}

\* Request p takes a step of its ledger call.
LedgerStep(p) == req[p].pc \in LedgerPcs /\ req'[p] # req[p]

\* Request p's ledger call commits in this step.
Commits(p) == req[p].pc = "L_commit" /\ req'[p].pc = "done"
              /\ req'[p].lerr = "none"

\* C1: in every reachable state every account's point balance is >= 0,
\* whatever scans, manual transactions, add-points and user updates ran and
\* however they interleaved.
BalanceNonNegative == \A u \in UserIds : users[u].points >= 0

\* C1 witness: an admin tried to set a negative balance and was refused, and
\* a SPEND has committed.
BalanceNonNegativeWitness ==
  /\ \E p \in Procs : /\ Done(p) /\ req[p].op = "updateUser"
                      /\ req[p].body.points = JsNum(-1)
                      /\ req[p].message = "Validation error"
  /\ \E rec \in txlog : rec.type = "SPEND"

\* C2: no step of a ledger call other than its successful commit changes a
\* balance or the transaction log, so a call that fails leaves the balance
\* as it was, and the log never holds a record of a call that failed.
LedgerAtomicity ==
  [][\A p \in Procs :
       /\ (LedgerStep(p) /\ ~Commits(p)) => (users' = users /\ txlog' = txlog)
       /\ (req[p].pc = "L_abort" /\ req'[p].pc = "done") =>
             \A rec \in txlog' : rec.id # req[p].lrec.id]_vars

\* C2 witness: a call failed after it had created its PENDING record and
\* written the balance inside its transaction.
LedgerAtomicityWitness ==
  \E p \in Procs : /\ Done(p)
                   /\ req[p].lerr = "StorageError"
                   /\ req[p].lrec.status = "COMPLETED"

(***************************************************************************)
(* C3.  In SpecRace both requests are SPENDs against u1.                   *)
(***************************************************************************)
Granted(p) == Done(p) /\ req[p].status \in {200, 201}

SpendAmount(p) == IF req[p].op = "scan" THEN req[p].gym.pointsRequired
                  ELSE req[p].points

InsufficientOrConflict(p) ==
  /\ Done(p)
  /\ req[p].message \in {"Not enough points", "User does not have enough points",
                         "Insufficient points", "WriteConflict"}

RaceOutcome(p, q) ==
  /\ Granted(p) /\ ~Granted(q)
  /\ InsufficientOrConflict(q)
  /\ users["u1"].points = users0["u1"].points - SpendAmount(p)
  /\ users["u1"].points >= 0

BothDone == \A p \in Procs : Done(p) /\ (req[p].op = "scan" => req[p].verified)

\* C3 as stated: whenever the two amounts together exceed the balance,
\* exactly one SPEND succeeds.
RaceExactlyOneOriginal ==
  (BothDone /\ SpendAmount("p1") + SpendAmount("p2") > users0["u1"].points)
    => (RaceOutcome("p1", "p2") \/ RaceOutcome("p2", "p1"))

\* C3 amended: two concurrent SPENDs, each of which the balance covers on its
\* own while it does not cover both: exactly one succeeds, the other fails
\* with an insufficient-points or write-conflict error, and the final
\* balance is the initial balance minus the amount that succeeded.
RaceExactlyOne ==
  (/\ BothDone
   /\ SpendAmount("p1") + SpendAmount("p2") > users0["u1"].points
   /\ SpendAmount("p1") <= users0["u1"].points
   /\ SpendAmount("p2") <= users0["u1"].points)
    => (RaceOutcome("p1", "p2") \/ RaceOutcome("p2", "p1"))

\* C3 witness: both SPENDs passed their own points check and the loser was
\* stopped inside the ledger by the write conflict.
RaceExactlyOneWitness ==
  /\ BothDone
  /\ \E p \in Procs : req[p].message = "WriteConflict"
  /\ \E p \in Procs : Granted(p)

(***************************************************************************)
(* C4 - C6.  QR sessions.                                                  *)
(***************************************************************************)
PayloadOf(session) ==
  [kind |-> "object", id |-> session.code, gymId |-> session.gymId,
   pointsRequired |-> session.pointsRequired]

Verifies(session) ==
  verifyQRCode(PayloadOf(session), gyms[session.gymId], session.gymId, now)

Current(session) ==
  /\ gyms[session.gymId].exists
  /\ gyms[session.gymId].qrCode.code = session.code

\* A recorded verification of payload against the gym as it was at the call.
Probe(p) == req[p].op = "verify"

\* C4: at most one issued payload verifies for a gym; the payload of a
\* session that a later issuance replaced does not verify, also before the
\* replaced session's expiry time.
Supersession ==
  /\ \A g \in GymIds :
       Cardinality({s \in issued : s.gymId = g /\ Verifies(s)}) <= 1
  /\ \A s \in issued : ~Current(s) => ~Verifies(s)
  /\ \A p \in Procs :
       (Probe(p) /\ req[p].verified) =>
          req[p].payload.id = req[p].gym.qrCode.code

\* C4 witness: a verification of a replaced session's payload, made before
\* that session's expiry time, returned false.
SupersessionWitness ==
  \E p \in Procs, s \in issued :
    /\ Probe(p) /\ ~req[p].verified
    /\ req[p].payload = PayloadOf(s)
    /\ req[p].gymId = s.gymId
    /\ req[p].at <= s.expiresAt
    /\ req[p].gym.qrCode.code # s.code
    /\ \E t \in issued : t.gymId = s.gymId /\ t.code = req[p].gym.qrCode.code

\* The five conditions of the contract, on the arguments of the call.
FiveConditions(payload, gymId, gym, t) ==
  /\ payload.kind = "object" /\ payload.id # NoCode /\ payload.gymId # Missing
  /\ payload.gymId = gymId
  /\ gym.qrCode.code # NoCode /\ gym.qrCode.expiresAt # NoDate
  /\ t <= gym.qrCode.expiresAt
  /\ payload.id = gym.qrCode.code

\* C5: verifyQRCode returns true exactly when the payload has the expected
\* shape, names the gym, the gym has a session, the session has not expired
\* and the payload's token is the session's token; it returns false for a
\* gym that never had a session.
VerifyIffFiveConditions ==
  \A p \in Procs :
    Probe(p) =>
      /\ req[p].verified =
           FiveConditions(req[p].payload, req[p].gymId, req[p].gym, req[p].at)
      /\ req[p].gym.qrCode.code = NoCode => ~req[p].verified

\* C5 witness: one call returned true, another was made for a gym without a
\* session.
VerifyIffFiveConditionsWitness ==
  /\ \E p \in Procs : Probe(p) /\ req[p].verified
  /\ \E p \in Procs : /\ Probe(p) /\ req[p].gym.qrCode.code = NoCode
                      /\ req[p].payload.id # NoCode
                      /\ req[p].payload.gymId = req[p].gymId

\* C6, the states: a session that has not been replaced expires QR_CODE_EXPIRY
\* hours after its issue and verifies exactly up to its expiry time.
ExpiryStates ==
  \A s \in issued :
    /\ s.expiresAt = s.issuedAt + QR_CODE_EXPIRY
    /\ Current(s) => (Verifies(s) <=> (s.issuedAt <= now /\ now <= s.expiresAt))

\* C6, the steps: a session that stopped verifying does not verify again.
ExpirySteps ==
  \A s \in issued :
    (~Verifies(s)) =>
       ~verifyQRCode(PayloadOf(s), gyms'[s.gymId], s.gymId, now')

\* C6: a session issued at T verifies at every time from T to T + TTL and at
\* no later time, and once it is invalid it stays invalid.
Expiry == []ExpiryStates /\ [][ExpirySteps]_vars

\* C6 witness: the clock stands exactly at the expiry time of the current
\* session, a verification made now returned true, and an earlier session
\* of the gym has run out.
ExpiryWitness ==
  \E s \in issued, p \in Procs :
    /\ Current(s) /\ now = s.expiresAt /\ Verifies(s)
    /\ Probe(p) /\ req[p].verified /\ req[p].at = now
    /\ req[p].payload = PayloadOf(s)
    /\ \E old \in issued : old.gymId = s.gymId /\ old.expiresAt < now

(***************************************************************************)
(* C7 - C10.  Scans and manual grants.                                     *)
(***************************************************************************)
\* Request p is a finished scan that presented a verified payload and found
\* its account.
ScanChecked(p) ==
  /\ Done(p) /\ req[p].op = "scan" /\ req[p].verified /\ req[p].user.exists

\* The log holds exactly one record of request p's ledger call, and it is rec.
OneRecord(p, rec) ==
  /\ RecordsOf(p) = {[rec EXCEPT !.id = req[p].lrec.id]}
  /\ req[p].lrec.id # NoRec.id

GrantedAsSpecified(p) ==
  /\ req[p].status = 200
  /\ users[req[p].actor].points = req[p].before - req[p].gym.pointsRequired
  /\ OneRecord(p, [id |-> 0, userId |-> req[p].actor,
                   gymId |-> req[p].gymId,
                   points |-> req[p].gym.pointsRequired, half |-> 0,
                   type |-> "SPEND", status |-> "COMPLETED",
                   createdBy |-> Missing,
                   qrCodeId |-> req[p].payload.id,
                   deviceInfo |-> req[p].deviceInfo,
                   location |-> req[p].location])

\* C7: a scan, served alone, by an account whose balance b covers the gym's
\* price p with the gym's current payload is granted, leaves the balance at
\* b - p and adds exactly one COMPLETED SPEND record of p points for the
\* account and the gym.
ScanGranted ==
  \A p \in Procs :
    (ScanChecked(p) /\ req[p].before >= req[p].gym.pointsRequired) =>
       GrantedAsSpecified(p)

\* The same for gyms whose price is at least one point.
ScanGrantedPriced ==
  \A p \in Procs :
    (/\ ScanChecked(p) /\ req[p].before >= req[p].gym.pointsRequired
     /\ req[p].gym.pointsRequired >= 1) => GrantedAsSpecified(p)

\* The account did not cover the price when the scan's own check read it.
DeniedByCheck(p) ==
  ScanChecked(p) /\ req[p].before < req[p].gym.pointsRequired

\* The account covered the price at the scan's check and no longer did when
\* the ledger call read it.
DeniedByLedger(p) ==
  /\ ScanChecked(p) /\ req[p].luser.exists /\ req[p].lerr # "StorageError"
  /\ req[p].luser.points < req[p].ldata.points

ScanDeniedStates ==
  \A p \in Procs :
    /\ DeniedByCheck(p) =>
         /\ req[p].status = 400 /\ req[p].message = "Not enough points"
         /\ req[p].lrec = NoRec
    /\ DeniedByLedger(p) =>
         /\ req[p].status = 500 /\ req[p].message = "Insufficient points"
         /\ RecordsOf(p) = {}
    /\ (DeniedByCheck(p) \/ DeniedByLedger(p)) =>
         req[p].message # "Invalid or expired QR code"

ScanDeniedSteps ==
  \A p \in Procs :
    (/\ req[p].op = "scan" /\ ~Done(p)
     /\ req'[p].message \in {"Not enough points", "Insufficient points"})
      => (users' = users /\ txlog' = txlog)

\* C8: a scan with a valid payload by an account whose balance is below the
\* price is denied with an insufficient-points message that differs from the
\* invalid-or-expired-code message; the denial changes no balance and adds
\* no record.
ScanDenied == []ScanDeniedStates /\ [][ScanDeniedSteps]_vars

\* C8 witness: a scan was denied by its own check after a SPEND had taken
\* the balance below the price.
ScanDeniedWitness ==
  \E p \in Procs :
    /\ DeniedByCheck(p)
    /\ users0[req[p].actor].points >= req[p].gym.pointsRequired
    /\ \E rec \in txlog : rec.type = "SPEND" /\ rec.userId = req[p].actor

\* A scan passed its own check and was denied by the ledger call, after a
\* concurrent request took the points.
ScanDeniedLate ==
  \E q \in Procs :
    DeniedByLedger(q) /\ req[q].before >= req[q].gym.pointsRequired

\* Request p is an answered manual grant.
Grant(p) ==
  /\ Granted(p)
  /\ \/ req[p].op = "addPoints"
     \/ req[p].op = "manual" /\ req[p].type = "EARN"

\* C9: a manual grant of N points, by POST /api/transactions with type EARN
\* or by POST /api/users/:id/points, leaves the balance at b + N and adds
\* exactly one COMPLETED EARN record of N points created by the admin.
ManualGrant ==
  \A p \in Procs :
    Grant(p) =>
      /\ users[req[p].target].points = req[p].before + req[p].points
      /\ OneRecord(p, [id |-> 0, userId |-> req[p].target,
                       gymId |-> req[p].gymId, points |-> req[p].points,
                       half |-> 0, type |-> "EARN", status |-> "COMPLETED",
                       createdBy |-> req[p].actor, qrCodeId |-> NoCode,
                       deviceInfo |-> Missing, location |-> Missing])

\* The same for POST /api/transactions alone.
ManualGrantByTransaction ==
  \A p \in Procs : (Grant(p) /\ req[p].op = "manual") => ManualGrant

\* The step is the commit of a ledger call on account u that moves the
\* balance by the amount and in the direction of the one record it adds.
LedgerChange(u) ==
  \E p \in Procs :
    /\ Commits(p) /\ req[p].ldata.userId = u
    /\ txlog' = txlog \cup {req[p].lrec} /\ req[p].lrec \notin txlog
    /\ users'[u].points - users[u].points =
         IF req[p].lrec.type = "EARN" THEN req[p].lrec.points
                                      ELSE 0 - req[p].lrec.points

\* C10: every step that changes the balance of an account is the commit of
\* a ledger call that persists one record of the same amount and direction.
BalanceOnlyByLedger ==
  [][\A u \in UserIds :
       (users[u].exists /\ users'[u].exists
        /\ users'[u].points # users[u].points) => LedgerChange(u)]_vars

(***************************************************************************)
(* C11.  The price a scan debits.                                          *)
(***************************************************************************)
\* Request p is a granted scan.
GrantedScan(p) == Granted(p) /\ req[p].op = "scan"

AppendOnly ==
  [][\A rec \in txlog : rec.status = "COMPLETED" => rec \in txlog']_vars

\* C12 witness: the log holds a record of an account or of a gym that has
\* been deleted since.
AppendOnlyWitness ==
  /\ Done("p1") /\ req["p1"].op \in {"deleteUser", "deleteGym"}
  /\ req["p1"].status = 200
  /\ \E rec \in txlog :
       /\ rec.status = "COMPLETED"
       /\ ~users[rec.userId].exists \/ ~gyms[rec.gymId].exists

(***************************************************************************)
(* C13.  What another request can see of a ledger call.                    *)
(***************************************************************************)
\* The change of the balance that record rec stands for.
Signed(rec) == IF rec.type = "EARN" THEN rec.points ELSE 0 - rec.points

VisibleStates == \A rec \in txlog : rec.status = "COMPLETED"

VisibleSteps ==
  \A p \in Procs :
    LedgerStep(p) =>
      LET u == req[p].ldata.userId IN
        IF Commits(p)
        THEN /\ req[p].lrec \notin txlog
             /\ txlog' = txlog \cup {req[p].lrec}
             /\ req[p].lrec.status = "COMPLETED"
             /\ users'[u].points - users[u].points = Signed(req[p].lrec)
        ELSE txlog' = txlog /\ users' = users

\* C13: the balance change of a ledger call and its record become visible
\* in the same step, the commit: the log never holds a PENDING record, never
\* a COMPLETED record beside the balance from before the call, and the
\* balance never moves without the record.
VisibleTogether == []VisibleStates /\ [][VisibleSteps]_vars

\* C13 witness: a ledger call has written the new balance and completed its
\* record inside its transaction, nothing of it is visible, and another
\* request is about to read the account.
VisibleTogetherWitness ==
  \E p, q \in Procs :
    /\ p # q
    /\ req[p].pc = "L_commit" /\ req[p].lrec.status = "COMPLETED"
    /\ req[p].lrec \notin txlog
    /\ users[req[p].ldata.userId].points = req[p].luser.points
    /\ req[p].lpoints # req[p].luser.points
    /\ req[q].pc \in {"scan_user", "manual_user", "L_find"}
    /\ req[q].op # "scan" => req[q].target = req[p].ldata.userId

(***************************************************************************)
(* C14.  The balance a granted scan returns.                               *)
(***************************************************************************)
\* C14: when the debit of a scan commits, the balance the scan returns is
\* the balance the account then has, whatever other ledger operations ran
\* between the scan's read of the account and its debit.
ScanReturnsBalance ==
  [][\A p \in Procs :
       (Commits(p) /\ req[p].op = "scan") =>
          req'[p].respPoints = users'[req[p].actor].points]_vars

\* The same when no request committed on the account between the scan's
\* read and its ledger call.
ScanReturnsBalanceAlone ==
  [][\A p \in Procs :
       (Commits(p) /\ req[p].op = "scan"
        /\ req[p].before = req[p].luser.points) =>
          req'[p].respPoints = users'[req[p].actor].points]_vars

(***************************************************************************)
(* C15.  A session serves many scans.                                      *)
(***************************************************************************)
\* Request p takes a step of a scan.
ScanTakesStep(p) ==
  /\ req'[p] # req[p]
  /\ req[p].op = "scan" \/ req'[p].op = "scan"

NotSingleUseSteps == \A p \in Procs : ScanTakesStep(p) => gyms' = gyms

\* The payload of a scan that verified verifies again while the session it
\* was checked against is the gym's session and has not expired.
NotSingleUseStates ==
  \A p \in Procs :
    (/\ req[p].op = "scan" /\ req[p].verified
     /\ gyms[req[p].gymId].exists
     /\ gyms[req[p].gymId].qrCode = req[p].gym.qrCode
     /\ now <= req[p].gym.qrCode.expiresAt)
      => verifyQRCode(req[p].payload, gyms[req[p].gymId], req[p].gymId, now)

\* C15: no step of a scan, granted or denied, changes the gym's session
\* token or expiry, so the same payload verifies again, for the same or
\* another account, while the session is unexpired and not replaced.
NotSingleUse == []NotSingleUseStates /\ [][NotSingleUseSteps]_vars

\* C15 witness: two accounts were granted access with the same payload, one
\* after the other.
NotSingleUseWitness ==
  \E p, q \in Procs :
    /\ GrantedScan(p) /\ GrantedScan(q)
    /\ req[p].actor # req[q].actor
    /\ req[p].payload = req[q].payload
    /\ req[p].lrec.id < req[q].lrec.id
    /\ req[q].at > req[p].at

(***************************************************************************)
(* C16.  Concurrent issuance.                                              *)
(***************************************************************************)
\* Request p is an issuance for an existing gym that has been answered.
Issued(p) == Done(p) /\ req[p].op = "generate" /\ req[p].gym.exists

\* C16: however two issuances for a gym interleave, both are answered with
\* success, the gym's stored session is, token and expiry, the session of
\* one issuance, and only that issuance's payload verifies.
IssuanceRace ==
  /\ \A p \in Procs : Issued(p) => req[p].status = 200
  /\ \A g \in GymIds :
       (gyms[g].exists /\ gyms[g].qrCode.code # NoCode) =>
          \E s \in issued :
            /\ s.gymId = g
            /\ gyms[g].qrCode = [code |-> s.code, expiresAt |-> s.expiresAt]
            /\ \A t \in issued : (t.gymId = g /\ Verifies(t)) => t = s
  /\ \A p \in Procs :
       (Issued(p) /\ req[p].payload.id = gyms[req[p].gymId].qrCode.code) =>
          req[p].qr = gyms[req[p].gymId].qrCode

\* C16 witness: two overlapping issuances for one gym are answered; the one
\* that drew its token first wrote last, at a later hour, and its session is
\* the stored one.
IssuanceRaceWitness ==
  \E p, q \in Procs :
    /\ p # q /\ Issued(p) /\ Issued(q) /\ req[p].gymId = req[q].gymId
    /\ req[p].qr.code < req[q].qr.code
    /\ req[p].qr.expiresAt > req[q].qr.expiresAt
    /\ gyms[req[p].gymId].qrCode = req[p].qr

(***************************************************************************)
(* C17.  The record of a granted scan.                                     *)
(***************************************************************************)
\* The record of a granted scan carries the presented token, the device
\* info and the location.
ScanRecordMetadata ==
  \A p \in Procs :
    GrantedScan(p) =>
      /\ req[p].lrec \in txlog
      /\ req[p].lrec.userId = req[p].actor
      /\ req[p].lrec.qrCodeId = req[p].payload.id
      /\ req[p].lrec.deviceInfo = req[p].deviceInfo
      /\ req[p].lrec.location = req[p].location

\* C17: the record of a granted scan has createdBy equal to the scanning
\* account and carries the presented token, the device info and the
\* location.
ScanRecordAttribution ==
  /\ ScanRecordMetadata
  /\ \A p \in Procs : GrantedScan(p) => req[p].lrec.createdBy = req[p].actor

(***************************************************************************)
(* C19.  Malformed payloads.                                               *)
(***************************************************************************)
\* The payload is not an object with a token id and a gym id.
Malformed(payload) ==
  payload.kind # "object" \/ payload.id = NoCode \/ payload.gymId = Missing

\* Request p is an answered scan of an authenticated member.
ScanAnswered(p) ==
  Done(p) /\ req[p].op = "scan" /\ req[p].status \notin {401, 403}

\* C19: a scan whose payload is malformed is answered with the
\* malformed-payload error and no other outcome.
MalformedRejected ==
  \A p \in Procs :
    (ScanAnswered(p) /\ Malformed(req[p].payload)) =>
       req[p].status = 400 /\ req[p].message = "Invalid QR code data"

\* The same for the payloads JSON.parse rejects.
UnparseableRejected ==
  \A p \in Procs :
    (ScanAnswered(p) /\ req[p].payload.kind = "invalid") =>
       /\ req[p].status = 400 /\ req[p].message = "Invalid QR code data"
       /\ ~req[p].gym.exists /\ req[p].lrec = NoRec

(***************************************************************************)
(* C18.  The course of a scan.                                             *)
(***************************************************************************)
\* The stages of a scan that has not been answered, in their order.
ScanStage(pc) ==
  CASE pc = "idle" -> 0
    [] pc = "scan_gym" -> 1
    [] pc = "scan_user" -> 2
    [] pc = "L_find" -> 3
    [] pc = "L_create" -> 4
    [] pc = "L_save" -> 5
    [] pc = "L_complete" -> 6
    [] pc = "L_commit" -> 7
    [] pc = "L_abort" -> 8
    [] OTHER -> 9

\* An answered scan is granted or denied, and a granted one parsed its
\* payload, resolved the gym, verified, read the account and committed a
\* SPEND for it.
ScanStates ==
  \A p \in Procs :
    (Done(p) /\ req[p].op = "scan") =>
      /\ (req[p].status = 200) # (req[p].status \in {400, 401, 403, 404, 500})
      /\ (req[p].status = 200) =>
           /\ req[p].payload.kind = "object"
           /\ req[p].gym.exists /\ req[p].gymId = req[p].payload.gymId
           /\ req[p].verified
           /\ FiveConditions(req[p].payload, req[p].gymId, req[p].gym, req[p].at)
           /\ req[p].user.exists
           /\ req[p].lrec \in txlog
           /\ req[p].lrec.type = "SPEND" /\ req[p].lrec.status = "COMPLETED"
           /\ req[p].lrec.userId = req[p].actor

\* A scan moves forward one stage at a time or is answered; it is granted
\* only by the commit of its SPEND, and an answer is final.
ScanSteps ==
  \A p \in Procs :
    (ScanTakesStep(p) /\ req'[p].op = "scan") =>
      /\ ~Done(p)
      /\ \/ Done(p)'
         \/ ScanStage(req'[p].pc) = ScanStage(req[p].pc) + 1 /\ req'[p].pc # "L_abort"
         \/ req'[p].pc = "L_abort" /\ ScanStage(req[p].pc) \in 3 .. 7
      /\ (Done(p)' /\ req'[p].status = 200) => Commits(p)
      /\ req'[p].pc = "scan_user" =>
           verifyQRCode(req[p].payload, req'[p].gym, req'[p].gymId, now)

\* C18: every scan ends granted or denied, never both; it is granted only
\* after the payload parsed, the gym was resolved, the verification returned
\* true, the account was read and a SPEND for the account committed, in this
\* order.
ScanCourse ==
  /\ []ScanStates
  /\ [][ScanSteps]_vars
  /\ \A p \in Procs : (req[p].op = "scan") ~> Done(p)

\* C18 witness: one scan was granted and another was denied by the
\* verification.
ScanCourseWitness ==
  \E p, q \in Procs :
    /\ GrantedScan(p)
    /\ Done(q) /\ req[q].op = "scan"
    /\ req[q].message = "Invalid or expired QR code"

(***************************************************************************)
(* C20                                                                     *)
(***************************************************************************)
\* Request p asks for a ledger operation: a manual transaction, an
\* add-points call, or a scan that has reached Transaction.createTransaction.
LedgerOp(p) ==
  \/ req[p].op \in {"manual", "addPoints"}
  \/ req[p].op = "scan" /\ req[p].ldata.userId # Missing

\* The amount of that operation, in halves.
Asked(p) ==
  IF req[p].op = "scan" THEN Halves(req[p].ldata.points, req[p].ldata.half)
  ELSE Halves(req[p].points, req[p].half)

\* The answer names the amount as the fault.
InvalidAmountError(p) ==
  /\ req[p].status = 400
  /\ req[p].message \in {"Points must be a positive number", "Validation error"}

\* A step leaves every balance and the log as they were.
BalancesAndLogKept ==
  /\ txlog' = txlog
  /\ \A u \in UserIds :
       users'[u].points = users[u].points /\ users'[u].half = users[u].half

\* Zero and negative amounts are refused at every entry point, and so is a
\* fractional amount of a manual transaction.
NonPositiveRejected ==
  /\ [](\A p \in Procs :
         (/\ Done(p) /\ LedgerOp(p)
          /\ Asked(p) <= 0 \/ (Frac(Asked(p)) = 1 /\ req[p].op = "manual"))
           => InvalidAmountError(p))
  /\ [][\A p \in Procs :
         (/\ LedgerOp(p)
          /\ Asked(p) <= 0 \/ (Frac(Asked(p)) = 1 /\ req[p].op = "manual"))
           => BalancesAndLogKept]_vars

\* C20: a ledger operation whose amount is not a positive integer (zero,
\* negative, or with a fraction), through the ledger call, a manual
\* transaction or add-points, is answered with an invalid-amount error and
\* changes no balance and adds no record.
InvalidAmountRejected ==
  /\ [](\A p \in Procs :
         (Done(p) /\ LedgerOp(p) /\ (Asked(p) <= 0 \/ Frac(Asked(p)) = 1))
           => InvalidAmountError(p))
  /\ [][\A p \in Procs :
         (LedgerOp(p) /\ (Asked(p) <= 0 \/ Frac(Asked(p)) = 1))
           => BalancesAndLogKept]_vars

\* An add-points call of one and a half points was answered with success:
\* the balance rose by three and the log holds a record of 1.5 points.
FractionAccepted ==
  \E p \in Procs :
    /\ Done(p) /\ req[p].op = "addPoints" /\ req[p].status = 200
    /\ req[p].points = 1 /\ req[p].half = 1
    /\ users[req[p].target].points = req[p].before + 3
    /\ \E rec \in RecordsOf(p) : rec.points = 1 /\ rec.half = 1

(***************************************************************************)
(* C21                                                                     *)
(***************************************************************************)
\* Request p is an answered manual grant or charge that named no gym, of a
\* whole positive amount the account can bear.
Gymless(p) ==
  /\ Done(p) /\ req[p].op \in {"manual", "addPoints"}
  /\ req[p].gymId = Missing
  /\ isInt(req[p].points, req[p].half, 1)
  /\ (req[p].op = "manual" /\ req[p].type = "SPEND")
       => users[req[p].target].points >= req[p].points

\* C21: a manual grant or charge submitted without a gym identity succeeds
\* and persists one COMPLETED record with no gym identity.
GymlessSucceeds ==
  \A p \in Procs :
    Gymless(p) =>
      /\ Granted(p)
      /\ \E rec \in RecordsOf(p) :
           rec.gymId = Missing /\ rec.status = "COMPLETED"

\* What the code does with them: both are answered 400 and no record is
\* written.
GymlessRefused ==
  \A p \in Procs :
    Gymless(p) =>
      /\ req[p].status = 400
      /\ req[p].message \in {"Gym ID is required", "Validation error"}
      /\ \A rec \in txlog : rec.gymId # Missing

(***************************************************************************)
(* C22                                                                     *)
(***************************************************************************)
\* C22: an account that has a transaction record is never removed: every
\* record's account identity names an existing account.
HistoryKeepsAccount == \A rec \in txlog : users[rec.userId].exists

\* Whoever is removed was removed by deleteUser's deleteOne, history or not.
RemovedByDeleteOnly ==
  [][\A u \in UserIds :
       (users[u].exists /\ ~users'[u].exists) =>
          \E p \in Procs : /\ req[p].pc = "delete_one" /\ req[p].target = u
                            /\ req'[p].status = 200]_vars

(***************************************************************************)
(* C23                                                                     *)
(***************************************************************************)
Elevated == {ROLES.SUPER_ADMIN, ROLES.ADMIN, ROLES.GYM}

\* The step gives account u the elevated role it did not hold before.
GivesRole(u) ==
  /\ users'[u].exists /\ users'[u].role \in Elevated
  /\ ~users[u].exists \/ users[u].role # users'[u].role

\* The request that takes the step, and the roles its actor was
\* authenticated with.
ActingAs(roles) ==
  \E p \in Procs : /\ req'[p] # req[p] /\ req[p].actor # Missing
                    /\ req[p].ruser.role \in roles

\* C23: an account gets an elevated role only from an actor who was super
\* admin at the time; public registration creates role user whatever the
\* request contains; no operation of an admin, gym or user actor gives an
\* elevated role.
NoEscalation ==
  [][/\ \A u \in UserIds : GivesRole(u) => ActingAs({ROLES.SUPER_ADMIN})
     /\ \A p \in Procs :
          (/\ req[p].op = "registerUser" /\ req[p].pc = "register"
           /\ req'[p].status = 201)
            => users'[req[p].target].role = ROLES.USER]_vars

\* What the code keeps: an elevated role is given by a super admin or an
\* admin, the super admin role by a super admin alone, and public
\* registration creates role user.
EscalationByAdmins ==
  [][/\ \A u \in UserIds :
          GivesRole(u) =>
            /\ ActingAs({ROLES.SUPER_ADMIN, ROLES.ADMIN})
            /\ users'[u].role = ROLES.SUPER_ADMIN
                 => ActingAs({ROLES.SUPER_ADMIN})
     /\ \A p \in Procs :
          (/\ req[p].op = "registerUser" /\ req[p].pc = "register"
           /\ req'[p].status = 201)
            => users'[req[p].target].role = ROLES.USER]_vars

(***************************************************************************)
(* C24                                                                     *)
(***************************************************************************)
\* The actor of request p may issue for the gym the request names: a super
\* admin, or an admin or gym manager who has the gym among its own.
OwnsGym(p) ==
  \/ req[p].ruser.role = ROLES.SUPER_ADMIN
  \/ /\ req[p].ruser.role \in {ROLES.ADMIN, ROLES.GYM}
     /\ req[p].gymId \in req[p].ruser.assignedGyms

\* Request p is an issuance that was admitted to the handler.
Issuing(p) == req[p].op = "generate" /\ req[p].pc \in {"gen_find", "gen_save"}

\* C24: only super admin, admin and gym roles issue a session, an admin or
\* gym actor only for a gym among its own; any other issuance request is
\* refused and leaves the session of the gym as it was.
IssuanceGated ==
  /\ [](\A p \in Procs :
         (Done(p) /\ req[p].op = "generate" /\ ~OwnsGym(p))
           => req[p].status \in {401, 403, 404})
  /\ [][\A g \in GymIds :
         gyms'[g].qrCode # gyms[g].qrCode =>
           \E p \in Procs : /\ Issuing(p) /\ req'[p] # req[p]
                             /\ req[p].gymId = g /\ OwnsGym(p)]_vars

\* The part the routes enforce: a session changes only by an issuance whose
\* actor was admitted as super admin, admin or gym manager, and a user-role
\* actor is answered 403.
IssuanceByRole ==
  /\ [](\A p \in Procs :
         (/\ Done(p) /\ req[p].op = "generate"
          /\ req[p].actor # Missing /\ req[p].ruser.role = ROLES.USER)
           => req[p].status = 403)
  /\ [][\A g \in GymIds :
         gyms'[g].qrCode # gyms[g].qrCode =>
           \E p \in Procs : /\ Issuing(p) /\ req'[p] # req[p]
                             /\ req[p].gymId = g
                             /\ req[p].ruser.role \in Elevated]_vars

(***************************************************************************)
(* C25                                                                     *)
(***************************************************************************)
\* Request p is an answered status query of an existing gym.
StatusOf(p) == Done(p) /\ req[p].op = "status" /\ req[p].status = 200

\* p and q are answered status queries of one gym, p's not after q's, and
\* no session of the gym was issued from the one to the other.
StatusPair(p, q) ==
  /\ p # q /\ StatusOf(p) /\ StatusOf(q)
  /\ req[p].gymId = req[q].gymId
  /\ req[p].at <= req[q].at
  /\ \A s \in issued :
       s.gymId = req[p].gymId =>
         (s.issuedAt < req[p].at \/ s.issuedAt > req[q].at)

\* A status query changes no session, balance or record.
StatusPureRead ==
  \A p \in Procs :
    (req[p].op = "status" /\ req'[p] # req[p]) =>
      /\ gyms' = gyms
      /\ txlog' = txlog
      /\ \A u \in UserIds : users'[u].points = users[u].points

\* C25 as stated: a status query is a pure read, and two status queries of
\* a gym with no issuance between them return the same present, expired
\* and expiresAt.
StatusIdentical ==
  /\ [](\A p, q \in Procs :
         StatusPair(p, q) =>
           /\ req[p].hasQRCode = req[q].hasQRCode
           /\ req[p].isExpired = req[q].isExpired
           /\ req[p].qr.expiresAt = req[q].qr.expiresAt)
  /\ [][StatusPureRead]_vars

\* C25, amended: a status query is a pure read, and two status queries of
\* a gym with no issuance between them return the same present and
\* expiresAt; expired is what the clock says at each call, so it is the
\* same unless the expiry time passed between the two, and then it goes
\* from false to true.
StatusIdempotent ==
  /\ [](\A p, q \in Procs :
         StatusPair(p, q) =>
           /\ req[p].hasQRCode = req[q].hasQRCode
           /\ req[p].qr.expiresAt = req[q].qr.expiresAt
           /\ req[p].hasQRCode =>
                /\ req[p].isExpired = (req[p].at > req[p].qr.expiresAt)
                /\ req[q].isExpired = (req[q].at > req[q].qr.expiresAt)
                /\ req[p].isExpired => req[q].isExpired)
  /\ [][StatusPureRead]_vars

\* C25 witness: two status queries of g1 with no issuance between them, the
\* first answered before the expiry time and the second after it.
StatusIdempotentWitness ==
  \E p, q \in Procs :
    /\ StatusPair(p, q)
    /\ req[p].hasQRCode /\ ~req[p].isExpired /\ req[q].isExpired

(***************************************************************************)
(* C26                                                                     *)
(***************************************************************************)
\* The ledger call of scan p failed with a write conflict.
ConflictedScan(p) == req[p].op = "scan" /\ req[p].lerr = "WriteConflict"

NoRetryStates ==
  \A p \in Procs :
    (Done(p) /\ ConflictedScan(p)) =>
      /\ req[p].status = 500 /\ req[p].message = "WriteConflict"
      /\ RecordsOf(p) = {}

NoRetrySteps ==
  \A p \in Procs :
    (req[p].op = "scan" /\ req'[p] # req[p]) =>
      /\ req'[p].pc = "L_find" => req[p].pc = "scan_user"
      /\ ConflictedScan(p) => (users' = users /\ txlog' = txlog)

\* C26: a scan calls the ledger at most once; when the call fails with a
\* write conflict the scan is denied with that error, makes no second
\* attempt, and leaves the balance and the log as the conflicting committed
\* operation left them.
NoRetry == []NoRetryStates /\ [][NoRetrySteps]_vars

\* C26 witness: a scan was denied by a write conflict, and the balance is
\* the one the other, committed, ledger call wrote.
NoRetryWitness ==
  \E p, q \in Procs :
    /\ p # q /\ Done(p) /\ ConflictedScan(p)
    /\ Granted(q) /\ RecordsOf(q) # {}
    /\ req[q].ldata.userId = req[p].actor
    /\ users[req[p].actor].points = req[q].lpoints

(***************************************************************************)
(* C27                                                                     *)
(***************************************************************************)
\* The sum of the signed amounts of the records in S.
RECURSIVE SumSigned(_)
SumSigned(S) ==
  IF S = {} THEN 0
  ELSE LET rec == CHOOSE r \in S : TRUE
       IN Signed(rec) + SumSigned(S \ {rec})

Completed(u) == {rec \in txlog : rec.userId = u /\ rec.status = "COMPLETED"}

ReconciledStates ==
  \A u \in UserIds :
    users[u].exists =>
      users[u].points = users0[u].points + SumSigned(Completed(u))

\* The log gains one record with every ledger call that returns, and none
\* otherwise.
ReconciledSteps ==
  IF \E p \in Procs : Commits(p)
  THEN Cardinality(txlog') = Cardinality(txlog) + 1
  ELSE txlog' = txlog

\* C27: after any sequence and interleaving of scans and manual
\* transactions every balance is the balance at creation plus the COMPLETED
\* EARN amounts minus the COMPLETED SPEND amounts of the account, and the
\* log holds one record per successful ledger call.
Reconciled == []ReconciledStates /\ [][ReconciledSteps]_vars

\* The count of records follows the successful calls whatever the amounts.
RecordPerCall == [][ReconciledSteps]_vars

(***************************************************************************)
(* C28                                                                     *)
(***************************************************************************)
\* Balances, the log and the sessions of the gyms are what they were.
ScanFrame ==
  /\ txlog' = txlog
  /\ \A u \in UserIds :
       users'[u].points = users[u].points /\ users'[u].half = users[u].half
  /\ \A g \in GymIds : gyms'[g].qrCode = gyms[g].qrCode

\* The only step of a scan that changes any of them is the commit, and the
\* scan that commits is granted.
DeniedScanSteps ==
  \A p \in Procs :
    (req[p].op = "scan" /\ req'[p] # req[p]) =>
      IF Commits(p) THEN req'[p].status = 200 ELSE ScanFrame

DeniedScanStates ==
  \A p \in Procs :
    (Done(p) /\ req[p].op = "scan" /\ req[p].status # 200) =>
      RecordsOf(p) = {}

Quiet == \A p \in Procs : req[p].pc \in {"idle", "done"}

\* C29: after any completed sequence of createGym, assignAdmin,
\* removeAdmin, deleteGym and deleteUser, an account is among the admins of
\* an existing gym exactly if the gym is among its assigned gyms, and no
\* admins set names a deleted account.
AdminsConsistent ==
  Quiet =>
    \A g \in GymIds :
      gyms[g].exists =>
        /\ \A u \in gyms[g].admins : users[u].exists
        /\ \A u \in UserIds :
             users[u].exists =>
               (u \in gyms[g].admins <=> g \in users[u].assignedGyms)

\* The half that survives deleteUser: the existing accounts among a gym's
\* admins are those who have the gym among their own, and no account is
\* assigned to a deleted gym.
AdminsConsistentAmongExisting ==
  Quiet =>
    /\ \A g \in GymIds, u \in UserIds :
         (gyms[g].exists /\ users[u].exists) =>
           (u \in gyms[g].admins <=> g \in users[u].assignedGyms)
    /\ \A u \in UserIds, g \in GymIds :
         (users[u].exists /\ g \in users[u].assignedGyms) => gyms[g].exists

(***************************************************************************)
(* C30                                                                     *)
(***************************************************************************)
\* The step starts a request of slot p.
Starts(p) == req[p].op = "idle" /\ req'[p].op # "idle"

\* A request that starts as an account whose flag is off is answered at
\* once and never reaches its handler; a login of such an account stops at
\* the flag.
InactiveRefusedSteps ==
  \A p \in Procs :
    /\ (Starts(p) /\ req'[p].pc # "done") =>
         \/ req'[p].op = "login"
         \/ /\ req'[p].actor # Missing
            /\ users[req'[p].actor].isActive
            /\ req'[p].ruser.isActive
    /\ (req[p].pc = "login_find" /\ req'[p].pc = "login_save")
         => users[req[p].target].isActive
    /\ (req[p].pc = "login_find" /\ req'[p] # req[p]
          /\ users[req[p].target].exists /\ ~users[req[p].target].isActive)
         => req'[p].status = 403

\* Every scan in its handler, and so every granted scan and every debit by
\* a scan, belongs to a request that was authenticated while the flag was
\* on.
InactiveRefusedStates ==
  \A p \in Procs :
    (req[p].op = "scan" /\ (req[p].pc # "done" \/ req[p].status = 200)) =>
      req[p].actor # Missing /\ req[p].ruser.isActive

\* C30: once an account's isActive flag is false every request
\* authenticated as it that starts afterwards is refused before it reaches
\* its handler, so no scan is granted and no debit made for it until it is
\* reactivated.
InactiveRefused == []InactiveRefusedStates /\ [][InactiveRefusedSteps]_vars

\* C30 witness: the account is switched off, one of its scans has just been
\* refused at the door and its balance is what it was.
InactiveRefusedWitness ==
  \E p \in Procs :
    /\ Done(p) /\ req[p].op = "scan"
    /\ req[p].status = 403 /\ req[p].message = "User account is disabled"
    /\ ~users["u1"].isActive
    /\ users["u1"].points = users0["u1"].points

====
